---- MODULE Spec2Model ----
(***************************************************************************)
(* Model of the report core of nonki: record parsing and the statistics     *)
(* engine (src/report_data.py) and the holiday calculator                   *)
(* (src/report_html.py).                                                    *)
(*                                                                          *)
(* Conventions.                                                             *)
(*  - A text (a CSV cell) is a sequence of one-character strings.           *)
(*  - A date is its proleptic Gregorian ordinal (datetime.date.toordinal).  *)
(*  - An Optional value is a sequence: None is <<>>, the value x is <<x>>.  *)
(*  - Floats occur only as exact dyadic rationals of small magnitude, so    *)
(*    float arithmetic is modelled by exact rational arithmetic and         *)
(*    round() by round-half-to-even on the exact value.                     *)
(***************************************************************************)
EXTENDS Integers, Sequences, FiniteSets, TLC

VARIABLES
    stat_values,    \* statistics engine: the list handed to the function
    stat_fn,        \* which function was applied ("none" before the call)
    stat_p,         \* quantile: the p argument, a record [num, den]
    stat_result     \* the value returned

VARIABLES
    avg_exists,     \* whether the summary table file exists
    avg_csv,        \* the rows of the summary table, each a record of cell texts
    avg_rows,       \* main: avg_rows, the list read_avg_csv returned
    avg_pc          \* "start", then "read", or "raised" when the read raised

VARIABLES
    details_exists, \* whether the detail table file exists
    details_csv,    \* the rows of the detail table, each a record of cell texts
    details_rows,   \* main: details_rows, the list read_details_csv returned
    detail_stats_by_day,    \* main: detail_stats_by_day
    det_pc          \* main's position once the summary table is read:
                    \* "start", "read", "holidays", "stats", "payload",
                    \* "assembled", "mkdir", "backup", "written" or "write_raised"

VARIABLES
    year,               \* _japan_holidays_for_year: the argument
    hols,               \* its set hols
    added_substitute,   \* its set added_substitute
    hol_todo,           \* what is left of sorted(hols) in the substitution loop
    hol_pc              \* "start", "substitute", "citizen", "done"

VARIABLES
    wd_d,           \* weekday_class, weekday_color: the argument d
    wd_class,       \* what weekday_class returned ("none" before the call)
    wd_color        \* what weekday_color returned ("none" before the call)

VARIABLES
    chart_avg_rows,     \* svg_line_chart: the argument avg_rows
    chart_stats_by_day, \* svg_line_chart: the argument detail_stats_by_day
    chart_out,          \* what it returned: "none" before the call, then
                        \* "placeholder" (the no-data paragraph) or "svg"
    chart_y,            \* the axis range <<y0, y1>>, None when never computed
    chart_segs,         \* the polylines of each series, in document order
    chart_avg_points    \* avg_points: the markers of the averages, in row order

VARIABLES
    pay_details_rows,   \* build_detail_payload_by_day: the argument details_rows
    pay_holidays,       \* its argument holidays
    pay_result,         \* what it returned
    pay_pc              \* "start", "done", then "modal"; "idle" when it is not called

VARIABLES
    args_title,         \* main: args.title
    main_holidays,      \* main: holidays
    detail_payload_by_day,  \* main: detail_payload_by_day
    gen_time,           \* main: what datetime.now() returned
    doc,                \* main: "\n".join(html_parts), None until assembled
    candidate,          \* backup_existing_html: the history name it renamed
                        \* the artifact to, None when it renamed nothing
    runs_done,          \* how many runs of main have finished before this one
    now,                \* the clock, in half seconds
    out_parent_exists,  \* file system: the directory of the output path
    out_file,           \* file system: the file at the output path, None or
                        \* a record of its content and last-modified time
    history             \* file system: the files of the history directory,
                        \* a function from names to such records

VARIABLES
    tab_avg_rows,       \* html_monthly_summary, html_table_avg: the summary rows
    tab_details_rows,   \* the detail rows the statistics are built from
    tab_stats_by_day,   \* their argument detail_stats_by_day
    tab_holidays,       \* html_table_avg: the argument holidays
    tab_monthly,        \* the rows of the table html_monthly_summary returned
    tab_table,          \* the rows of the table html_table_avg returned
    tab_pc              \* "start", "done", then "modal"; "idle" when they are not called

VARIABLES
    sel_avg_rows,       \* report.main: avg_rows at the selection loop
    best,               \* its best, None or a summary row
    worst,              \* its worst, None or a summary row
    sel_pc              \* "start", "done", then "modal"; "idle" when it does not run

VARIABLES
    run_pc,             \* overlapping runs: the position of each run
    run_ts,             \* backup_existing_html of each run: ts
    run_i,              \* the suffix of its candidate, 1 for none
    run_overlap         \* whether a run has taken a step while another run
                        \* was between its first step and its end

VARIABLES
    modal_day,          \* openDayModal: the key of the date it was called with
    modal_stats         \* the mean, median, p25 and p75 it computed

stat_vars == <<stat_values, stat_fn, stat_p, stat_result>>

avg_vars == <<avg_exists, avg_csv, avg_rows, avg_pc>>

det_vars == <<details_exists, details_csv, details_rows, detail_stats_by_day,
              det_pc>>

hol_vars == <<year, hols, added_substitute, hol_todo, hol_pc>>

wd_vars == <<wd_d, wd_class, wd_color>>

chart_vars == <<chart_avg_rows, chart_stats_by_day, chart_out, chart_y,
                chart_segs, chart_avg_points>>

\* the state of the report renderer and of main's output steps
pay_vars == <<pay_details_rows, pay_holidays, pay_result, pay_pc>>

main_vars == <<args_title, main_holidays, detail_payload_by_day, gen_time, doc, candidate,
               runs_done, now>>

fs_vars == <<out_parent_exists, out_file, history>>

tab_vars == <<tab_avg_rows, tab_details_rows, tab_stats_by_day, tab_holidays,
              tab_monthly, tab_table, tab_pc>>

sel_vars == <<sel_avg_rows, best, worst, sel_pc>>

run_vars == <<run_pc, run_ts, run_i, run_overlap>>

modal_vars == <<modal_day, modal_stats>>

ext_vars == <<tab_vars, sel_vars, run_vars, modal_vars>>

rep_vars == <<wd_vars, chart_vars, pay_vars, main_vars, fs_vars, ext_vars>>

vars == <<stat_vars, avg_vars, det_vars, hol_vars, rep_vars>>

\* Optional[T]: None, and a present value
NoneVal == <<>>

Some(x) == <<x>>

\* the value of a present Optional
Val(o) == o[1]

----------------------------------------------------------------------------
(* Bounds *)

MaxLen == 4

PriceSet == {1, 2, 3, 10, 20, 30, 40}

\* p arguments: 0.25 and 0.75 are the call sites, the others the end points
\* and the median; all are exact binary floats.
PSet == {[num |-> 0, den |-> 1], [num |-> 1, den |-> 4], [num |-> 1, den |-> 2],
         [num |-> 3, den |-> 4], [num |-> 1, den |-> 1]}

SeqsUpTo(S, n) == UNION {[1..k -> S] : k \in 0..n}

MaxAvgRows == 2

\* the years the holiday calculator is run for: the range its equinox formula
\* is documented for
MinYear == 1980

MaxYear == 2099

MaxDetailRows == 3

\* svg_line_chart is drawn for at most MaxChartRows summary rows
MaxChartRows == 4

\* build_detail_payload_by_day is handed at most MaxPayloadRows detail rows
MaxPayloadRows == 3

\* main runs at most MaxRuns times against the same output path
MaxRuns == 3

\* how many runs overlap on one output path
MaxOverlap == 2

\* the longest list of summary rows handed to the two tables
MaxTabRows == 3

\* the longest list of summary rows the best and the worst day are selected from
MaxSelRows == 3

\* the clock stays within MaxNow half seconds
MaxNow == 121

----------------------------------------------------------------------------
(* Python built-ins *)

\* round(x) of the float x = num/den (den > 0): nearest integer, exact halves
\* go to the even neighbour.
PyRound(num, den) ==
    LET q == num \div den
        r == num % den
    IN  IF 2 * r < den THEN q
        ELSE IF 2 * r > den THEN q + 1
        ELSE IF q % 2 = 0 THEN q ELSE q + 1

Min2(a, b) == IF a <= b THEN a ELSE b

RECURSIVE SumSeq(_)
SumSeq(s) == IF s = <<>> THEN 0 ELSE Head(s) + SumSeq(Tail(s))

\* insertion of x after every element that is <= x: the step of a stable sort
RECURSIVE InsertInt(_, _)
InsertInt(x, s) ==
    IF s = <<>> THEN <<x>>
    ELSE IF x < Head(s) THEN <<x>> \o s
    ELSE <<Head(s)>> \o InsertInt(x, Tail(s))

\* sorted(values) for a list of integers
RECURSIVE SortedInts(_)
SortedInts(s) ==
    IF s = <<>> THEN <<>>
    ELSE InsertInt(s[Len(s)], SortedInts(SubSeq(s, 1, Len(s) - 1)))

----------------------------------------------------------------------------
(* Statistics engine, src/report_data.py *)

mean_int(values) ==
    IF values = <<>> THEN NoneVal
    ELSE Some(PyRound(SumSeq(values), Len(values)))

median_int(values) ==
    IF values = <<>> THEN NoneVal
    ELSE LET xs == SortedInts(values)
             n  == Len(xs)
         IN  IF n % 2 = 1 THEN Some(xs[(n \div 2) + 1])
             ELSE Some(PyRound(xs[n \div 2] + xs[(n \div 2) + 1], 2))

quantile_unsorted(values, p) ==
    IF values = <<>> THEN NoneVal
    ELSE LET xs == values
             n  == Len(xs)
             inum == (n - 1) * p.num
             lo == inum \div p.den
             hi == Min2(lo + 1, n - 1)
             wnum == inum - lo * p.den
         IN  IF n = 1 THEN Some(xs[1])
             ELSE Some(PyRound(xs[lo + 1] * (p.den - wnum) + xs[hi + 1] * wnum,
                               p.den))

quantile_truncating(values, p) ==
    IF values = <<>> THEN NoneVal
    ELSE LET xs == SortedInts(values)
             n  == Len(xs)
             inum == (n - 1) * p.num
             lo == inum \div p.den
             hi == Min2(lo + 1, n - 1)
             wnum == inum - lo * p.den
         IN  IF n = 1 THEN Some(xs[1])
             ELSE Some((xs[lo + 1] * (p.den - wnum) + xs[hi + 1] * wnum)
                           \div p.den)

\* i = (n-1)*p is inum/p.den, lo = int(i), w = i - lo is wnum/p.den;
\* Python indexes from 0, the sequence from 1.
quantile(values, p) ==
    IF values = <<>> THEN NoneVal
    ELSE LET xs == SortedInts(values)
             n  == Len(xs)
             inum == (n - 1) * p.num
             lo == inum \div p.den
             hi == Min2(lo + 1, n - 1)
             wnum == inum - lo * p.den
         IN  IF n = 1 THEN Some(xs[1])
             ELSE Some(PyRound(xs[lo + 1] * (p.den - wnum) + xs[hi + 1] * wnum,
                               p.den))

----------------------------------------------------------------------------
(* Specification of the statistics engine: one call of one function *)

StatsIdle ==
    /\ stat_values = <<>>
    /\ stat_fn = "none"
    /\ stat_p = NoneVal
    /\ stat_result = NoneVal

StatsInit ==
    /\ stat_values \in SeqsUpTo(PriceSet, MaxLen)
    /\ stat_fn = "none"
    /\ stat_p = NoneVal
    /\ stat_result = NoneVal

CallQuantile ==
    /\ stat_fn = "none"
    /\ \E p \in PSet :
         /\ stat_p' = p
         /\ stat_result' = quantile(stat_values, p)
    /\ stat_fn' = "quantile"
    /\ UNCHANGED <<stat_values, avg_vars, det_vars, hol_vars, rep_vars>>

CallMeanInt ==
    /\ stat_fn = "none"
    /\ stat_result' = mean_int(stat_values)
    /\ stat_fn' = "mean_int"
    /\ UNCHANGED <<stat_values, stat_p, avg_vars, det_vars, hol_vars, rep_vars>>

CallMedianInt ==
    /\ stat_fn = "none"
    /\ stat_result' = median_int(stat_values)
    /\ stat_fn' = "median_int"
    /\ UNCHANGED <<stat_values, stat_p, avg_vars, det_vars, hol_vars, rep_vars>>

----------------------------------------------------------------------------
(* Texts: str values as sequences of characters *)

\* the characters that occur in the modelled cells, in code point order
CharOrder == <<" ", "\"", "&", "'", "+", "-", ".", "/", "0", "1", "2", "3", "4", "5", "6", "7", "8", "9", ":", "<", "=", ">", "?", "N", "T", "\\", "_", "a", "b", "c", "d", "e", "f", "g", "h", "i", "j", "k", "l", "m", "n", "o", "p", "q", "r", "s", "t", "u", "v", "w", "x", "y", "z">>

Ord(c) == CHOOSE i \in DOMAIN CharOrder : CharOrder[i] = c

IsDigit(c) == Ord(c) >= Ord("0") /\ Ord(c) <= Ord("9")

DigitVal(c) == Ord(c) - Ord("0")

\* str.strip(): leading and trailing white space removed
RECURSIVE LStrip(_)
LStrip(t) == IF t # <<>> /\ Head(t) = " " THEN LStrip(Tail(t)) ELSE t

RECURSIVE RStrip(_)
RStrip(t) ==
    IF t # <<>> /\ t[Len(t)] = " " THEN RStrip(SubSeq(t, 1, Len(t) - 1)) ELSE t

Strip(t) == RStrip(LStrip(t))

\* str.lower() on the characters of CharOrder
LowerChar(c) == IF c = "N" THEN "n" ELSE IF c = "T" THEN "t" ELSE c

Lower(t) == [i \in DOMAIN t |-> LowerChar(t[i])]

\* str < str: lexicographic by code point, a proper prefix is smaller
RECURSIVE TextLess(_, _)
TextLess(a, b) ==
    IF b = <<>> THEN FALSE
    ELSE IF a = <<>> THEN TRUE
    ELSE IF Head(a) # Head(b) THEN Ord(Head(a)) < Ord(Head(b))
    ELSE TextLess(Tail(a), Tail(b))

AllDigits(t) == \A i \in DOMAIN t : IsDigit(t[i])

\* the value of a non-empty run of decimal digits
RECURSIVE DigitsVal(_)
DigitsVal(t) ==
    IF t = <<>> THEN 0
    ELSE 10 * DigitsVal(SubSeq(t, 1, Len(t) - 1)) + DigitVal(t[Len(t)])

\* digits with single underscores between them, as int() and float() accept
IsDigitRun(t) ==
    /\ t # <<>>
    /\ IsDigit(t[1]) /\ IsDigit(t[Len(t)])
    /\ \A i \in DOMAIN t : IsDigit(t[i]) \/ t[i] = "_"
    /\ \A i \in 1..(Len(t) - 1) : ~(t[i] = "_" /\ t[i + 1] = "_")

RemoveUnderscores(t) == SelectSeq(t, LAMBDA c : c # "_")

\* a literal without its optional sign
Unsigned(v) == IF v # <<>> /\ (v[1] = "-" \/ v[1] = "+") THEN Tail(v) ELSE v

Sign(v) == IF v # <<>> /\ v[1] = "-" THEN -1 ELSE 1

\* int(text) raises ValueError unless the text is, white space stripped, an
\* optional sign and decimal digits
PyIntRaises(text) == ~IsDigitRun(Unsigned(Strip(text)))

\* int(text) where it does not raise
PyInt(text) ==
    LET v == Strip(text)
    IN  Sign(v) * DigitsVal(RemoveUnderscores(Unsigned(v)))

\* float(text) for plain decimal notation: sign, digits, optional point and
\* fraction.  Exponents, inf and nan do not occur in the modelled cells.
DotAt(body) ==
    LET dots == {i \in DOMAIN body : body[i] = "."}
    IN  IF dots = {} THEN Len(body) + 1 ELSE CHOOSE i \in dots : TRUE

PyFloatRaises(text) ==
    LET body == Unsigned(Strip(text))
        ip   == SubSeq(body, 1, DotAt(body) - 1)
        fp   == SubSeq(body, DotAt(body) + 1, Len(body))
    IN  ~ /\ Cardinality({i \in DOMAIN body : body[i] = "."}) <= 1
          /\ (ip # <<>> \/ fp # <<>>)
          /\ (ip = <<>> \/ IsDigitRun(ip))
          /\ (fp = <<>> \/ IsDigitRun(fp))

\* float(text) where it does not raise, as the exact fraction num/den
PyFloat(text) ==
    LET v    == Strip(text)
        body == Unsigned(v)
        ip   == RemoveUnderscores(SubSeq(body, 1, DotAt(body) - 1))
        fp   == RemoveUnderscores(SubSeq(body, DotAt(body) + 1, Len(body)))
    IN  [num |-> Sign(v) * (DigitsVal(ip) * (10 ^ Len(fp)) + DigitsVal(fp)),
         den |-> 10 ^ Len(fp)]

----------------------------------------------------------------------------
(* Dates: datetime.date as its ordinal *)

IsLeap(y) == (y % 4 = 0) /\ ((y % 100 # 0) \/ (y % 400 = 0))

DaysInMonth(y, m) ==
    IF m = 2 THEN (IF IsLeap(y) THEN 29 ELSE 28)
    ELSE IF m \in {4, 6, 9, 11} THEN 30 ELSE 31

DaysBeforeYear(y) ==
    365 * (y - 1) + ((y - 1) \div 4) - ((y - 1) \div 100) + ((y - 1) \div 400)

RECURSIVE DaysBeforeMonth(_, _)
DaysBeforeMonth(y, m) ==
    IF m = 1 THEN 0 ELSE DaysBeforeMonth(y, m - 1) + DaysInMonth(y, m - 1)

\* date(y, m, d) raises ValueError when there is no such day
IsValidDate(y, m, d) ==
    y >= 1 /\ m >= 1 /\ m <= 12 /\ d >= 1 /\ d <= DaysInMonth(y, m)

\* date(y, m, d) as its ordinal
Date(y, m, d) == DaysBeforeYear(y) + DaysBeforeMonth(y, m) + d

\* date.weekday(): Monday is 0, Sunday is 6
Weekday(d) == (d + 6) % 7

\* the time part HH[:MM[:SS]] that datetime.fromisoformat accepts after the
\* separator
IsIsoTime(t) ==
    /\ Len(t) \in {2, 5, 8}
    /\ AllDigits(SubSeq(t, 1, 2)) /\ DigitsVal(SubSeq(t, 1, 2)) < 24
    /\ Len(t) >= 5 =>
          /\ t[3] = ":"
          /\ AllDigits(SubSeq(t, 4, 5)) /\ DigitsVal(SubSeq(t, 4, 5)) < 60
    /\ Len(t) = 8 =>
          /\ t[6] = ":"
          /\ AllDigits(SubSeq(t, 7, 8)) /\ DigitsVal(SubSeq(t, 7, 8)) < 60

\* datetime.fromisoformat(v) accepts YYYY-MM-DD, optionally followed by one
\* separator character of any kind and a time of day.  (Newer Pythons accept
\* further ISO 8601 forms, none of which occurs in the modelled cells.)
FromIsoFormatRaises(v) ==
    ~ /\ Len(v) >= 10
      /\ AllDigits(SubSeq(v, 1, 4)) /\ v[5] = "-"
      /\ AllDigits(SubSeq(v, 6, 7)) /\ v[8] = "-"
      /\ AllDigits(SubSeq(v, 9, 10))
      /\ IsValidDate(DigitsVal(SubSeq(v, 1, 4)), DigitsVal(SubSeq(v, 6, 7)),
                     DigitsVal(SubSeq(v, 9, 10)))
      /\ (Len(v) = 10 \/ (Len(v) >= 12 /\ IsIsoTime(SubSeq(v, 12, Len(v)))))

\* datetime.fromisoformat(v).date() where it does not raise: the time of day
\* is discarded
FromIsoFormatDate(v) ==
    Date(DigitsVal(SubSeq(v, 1, 4)), DigitsVal(SubSeq(v, 6, 7)),
         DigitsVal(SubSeq(v, 9, 10)))

----------------------------------------------------------------------------
(* Record parsing, src/report_data.py *)

text_none == <<"n", "o", "n", "e">>

_parse_int(value) ==
    LET v == Strip(value)
    IN  IF v = <<>> \/ Lower(v) = text_none THEN NoneVal
        ELSE IF PyIntRaises(v) THEN NoneVal ELSE Some(PyInt(v))

_parse_float(value) ==
    LET v == Strip(value)
    IN  IF v = <<>> \/ Lower(v) = text_none THEN NoneVal
        ELSE IF PyFloatRaises(v) THEN NoneVal ELSE Some(PyFloat(v))

_parse_date(value) ==
    LET v == Strip(value)
    IN  IF v = <<>> THEN NoneVal
        ELSE IF FromIsoFormatRaises(v) THEN NoneVal
        ELSE Some(FromIsoFormatDate(v))

\* the sort key of read_avg_csv: x.checkin
AvgKeyLess(a, b) == a.checkin < b.checkin

RECURSIVE InsertAvg(_, _)
InsertAvg(x, s) ==
    IF s = <<>> THEN <<x>>
    ELSE IF AvgKeyLess(x, Head(s)) THEN <<x>> \o s
    ELSE <<Head(s)>> \o InsertAvg(x, Tail(s))

\* sorted(rows, key=lambda x: x.checkin); sorted() is stable
RECURSIVE SortedAvg(_)
SortedAvg(s) ==
    IF s = <<>> THEN <<>>
    ELSE InsertAvg(s[Len(s)], SortedAvg(SubSeq(s, 1, Len(s) - 1)))

\* int(r.get("count", "0") or 0): the empty cell is 0
CountRaises(cell) == cell # <<>> /\ PyIntRaises(cell)

Count(cell) == IF cell = <<>> THEN 0 ELSE PyInt(cell)

\* the AvgRow built from a table row whose checkin parsed
AvgRowOf(r) ==
    [checkin       |-> Val(_parse_date(r.checkin)),
     avg_price_yen |-> _parse_int(r.avg_price_yen),
     count         |-> Count(r.count),
     min_price_yen |-> _parse_int(r.min_price_yen),
     max_price_yen |-> _parse_int(r.max_price_yen),
     url           |-> r.url]

\* the loop of read_avg_csv: rows whose checkin does not parse are skipped
\* before anything else of the row is looked at
RECURSIVE AvgLoop(_)
AvgLoop(csv) ==
    IF csv = <<>> THEN <<>>
    ELSE LET r == csv[Len(csv)]
             front == AvgLoop(SubSeq(csv, 1, Len(csv) - 1))
         IN  IF _parse_date(r.checkin) = NoneVal THEN front
             ELSE Append(front, AvgRowOf(r))

\* read_avg_csv raises ValueError when a row that is not skipped has a count
\* cell that int() rejects
read_avg_csv_raises(csv) ==
    \E i \in DOMAIN csv :
        _parse_date(csv[i].checkin) # NoneVal /\ CountRaises(csv[i].count)

read_avg_csv_unsorted(csv) == AvgLoop(csv)

read_avg_csv(csv) == SortedAvg(AvgLoop(csv))

\* the sort key of read_details_csv: (x.checkin, x.price_yen, x.listing_url)
DetailKeyLess(a, b) ==
    \/ a.checkin < b.checkin
    \/ /\ a.checkin = b.checkin
       /\ \/ a.price_yen < b.price_yen
          \/ /\ a.price_yen = b.price_yen
             /\ TextLess(a.listing_url, b.listing_url)

RECURSIVE InsertDetail(_, _)
InsertDetail(x, s) ==
    IF s = <<>> THEN <<x>>
    ELSE IF DetailKeyLess(x, Head(s)) THEN <<x>> \o s
    ELSE <<Head(s)>> \o InsertDetail(x, Tail(s))

RECURSIVE SortedDetails(_)
SortedDetails(s) ==
    IF s = <<>> THEN <<>>
    ELSE InsertDetail(s[Len(s)], SortedDetails(SubSeq(s, 1, Len(s) - 1)))

\* the DetailRow built from a table row whose checkin and price_yen parsed
DetailRowOf(r) ==
    [checkin       |-> Val(_parse_date(r.checkin)),
     price_yen     |-> Val(_parse_int(r.price_yen)),
     listing_url   |-> r.listing_url,
     raw_label     |-> r.raw_label,
     title         |-> r.title,
     guests        |-> _parse_int(r.guests),
     bedrooms      |-> _parse_int(r.bedrooms),
     beds          |-> _parse_int(r.beds),
     reviews_count |-> _parse_int(r.reviews_count),
     rating        |-> _parse_float(r.rating),
     subtitle      |-> IF r.subtitle = <<>> THEN NoneVal ELSE Some(r.subtitle)]

RECURSIVE DetailsLoop(_)
DetailsLoop(csv) ==
    IF csv = <<>> THEN <<>>
    ELSE LET r == csv[Len(csv)]
             front == DetailsLoop(SubSeq(csv, 1, Len(csv) - 1))
         IN  IF _parse_date(r.checkin) = NoneVal \/ _parse_int(r.price_yen) = NoneVal
             THEN front
             ELSE Append(front, DetailRowOf(r))

read_details_csv_unsorted(csv) == DetailsLoop(csv)

read_details_csv(csv) == SortedDetails(DetailsLoop(csv))

----------------------------------------------------------------------------
(* Per-day statistics, src/report_data.py *)

EmptyDict == [k \in {} |-> <<>>]

ByDayStep_overwriting(by_day, r) ==
    IF r.checkin \in DOMAIN by_day
    THEN [by_day EXCEPT ![r.checkin] = <<r.price_yen>>]
    ELSE [d \in DOMAIN by_day \cup {r.checkin} |->
             IF d = r.checkin THEN <<r.price_yen>> ELSE by_day[d]]

\* by_day[r.checkin].append(r.price_yen) on a defaultdict(list)
ByDayStep(by_day, r) ==
    IF r.checkin \in DOMAIN by_day
    THEN [by_day EXCEPT ![r.checkin] = Append(@, r.price_yen)]
    ELSE [d \in DOMAIN by_day \cup {r.checkin} |->
             IF d = r.checkin THEN <<r.price_yen>> ELSE by_day[d]]

RECURSIVE GroupPricesByDay(_)
GroupPricesByDay(rows) ==
    IF rows = <<>> THEN EmptyDict
    ELSE ByDayStep(GroupPricesByDay(SubSeq(rows, 1, Len(rows) - 1)),
                   rows[Len(rows)])

\* min(prices), max(prices) of a non-empty list
MinOf(prices) ==
    CHOOSE v \in {prices[i] : i \in DOMAIN prices} :
        \A i \in DOMAIN prices : v <= prices[i]

MaxOf(prices) ==
    CHOOSE v \in {prices[i] : i \in DOMAIN prices} :
        \A i \in DOMAIN prices : v >= prices[i]

P25 == [num |-> 1, den |-> 4]

P75 == [num |-> 3, den |-> 4]

\* the statistics with the first and the last price of a date as its minimum
\* and maximum
build_detail_stats_by_day_ends(rows) ==
    LET by_day == GroupPricesByDay(rows)
    IN  [d \in DOMAIN by_day |->
            [median |-> median_int(by_day[d]),
             p25    |-> quantile(by_day[d], P25),
             p75    |-> quantile(by_day[d], P75),
             min    |-> Some(by_day[d][1]),
             max    |-> Some(by_day[d][Len(by_day[d])])]]

build_detail_stats_by_day(rows) ==
    LET by_day == GroupPricesByDay(rows)
    IN  [d \in DOMAIN by_day |->
            [median |-> median_int(by_day[d]),
             p25    |-> quantile(by_day[d], P25),
             p75    |-> quantile(by_day[d], P75),
             min    |-> IF by_day[d] # <<>> THEN Some(MinOf(by_day[d])) ELSE NoneVal,
             max    |-> IF by_day[d] # <<>> THEN Some(MaxOf(by_day[d])) ELSE NoneVal]]

----------------------------------------------------------------------------
(* The modelled tables *)

T_D23 == <<"2", "0", "2", "6", "-", "0", "1", "-", "2", "3">>

T_D24 == <<"2", "0", "2", "6", "-", "0", "1", "-", "2", "4">>

T_D25 == <<"2", "0", "2", "6", "-", "0", "1", "-", "2", "5">>

\* a valid date followed by a time of day
T_D23_time == <<"2", "0", "2", "6", "-", "0", "1", "-", "2", "3", " ", "1", "0", ":", "0", "0", ":", "0", "0">>

\* a valid date with surrounding blanks
T_D24_padded == <<" ", "2", "0", "2", "6", "-", "0", "1", "-", "2", "4", " ">>

\* no such day
T_Feb30 == <<"2", "0", "2", "6", "-", "0", "2", "-", "3", "0">>

D23 == Date(2026, 1, 23)

D24 == Date(2026, 1, 24)

D25 == Date(2026, 1, 25)

AvgCsv(checkin, avg, count, min, max, url) ==
    [checkin |-> checkin, avg_price_yen |-> avg, count |-> count,
     min_price_yen |-> min, max_price_yen |-> max, url |-> url]

\* rows of the summary table: well-formed rows, two rows of one date, a row
\* without a date, malformed dates, and malformed numeric cells
AvgCsvRows ==
    {AvgCsv(T_D23, <<"1", "0", "0", "0", "0">>, <<"2">>, <<"9", "0", "0", "0">>, <<"1", "1", "0", "0", "0">>, <<>>),
     AvgCsv(T_D23, <<"9", "5", "0", "0">>, <<"1">>, <<"9", "5", "0", "0">>, <<"9", "5", "0", "0">>, <<"a">>),
     AvgCsv(T_D24_padded, <<"1", "2", "0", "0", "0">>, <<" ", "1", " ">>, <<"n", "o", "n", "e">>, <<"a", "b", "c">>, <<>>),
     AvgCsv(T_D25, <<>>, <<>>, <<>>, <<>>, <<>>),
     AvgCsv(<<>>, <<"5", "0", "0", "0">>, <<"1">>, <<"5", "0", "0", "0">>, <<"5", "0", "0", "0">>, <<>>),
     AvgCsv(T_D23_time, <<"7", "0", "0", "0">>, <<"1">>, <<"7", "0", "0", "0">>, <<"7", "0", "0", "0">>, <<>>),
     AvgCsv(T_Feb30, <<"8", "0", "0", "0">>, <<"a", "b", "c">>, <<"8", "0", "0", "0">>, <<"8", "0", "0", "0">>, <<>>),
     AvgCsv(T_D24, <<"N", "o", "n", "e">>, <<"n", "o", "n", "e">>, <<>>, <<>>, <<>>)}

DetailCsv(checkin, price, url, title, guests, rating) ==
    [checkin |-> checkin, price_yen |-> price, listing_url |-> url,
     raw_label |-> <<>>, title |-> title, guests |-> guests, bedrooms |-> <<>>,
     beds |-> <<>>, reviews_count |-> <<>>, rating |-> rating, subtitle |-> <<>>]

\* rows of the detail table: the two listings of 2026-01-23, a third one with
\* the same sort key, a price of 0, a missing price, a missing date, a date
\* with a time of day, and malformed numeric cells
DetailCsvRows ==
    {DetailCsv(T_D23, <<"9", "0", "0", "0">>, <<"a">>, <<"x">>, <<"2">>, <<"4", ".", "5">>),
     DetailCsv(T_D23, <<"1", "1", "0", "0", "0">>, <<"b">>, <<"x">>, <<>>, <<>>),
     DetailCsv(T_D23, <<"9", "0", "0", "0">>, <<"a">>, <<"<">>, <<"a", "b", "c">>, <<"4", ".", "5", ".", "1">>),
     DetailCsv(T_D24, <<"0">>, <<>>, <<>>, <<"N", "o", "n", "e">>, <<"n", "o", "n", "e">>),
     DetailCsv(T_D24, <<>>, <<"a">>, <<"x">>, <<>>, <<>>),
     DetailCsv(<<>>, <<"5", "0", "0", "0">>, <<"a">>, <<"x">>, <<>>, <<>>),
     DetailCsv(T_D23_time, <<"3", "0">>, <<"a">>, <<"x">>, <<>>, <<>>),
     DetailCsv(T_D25, <<"1", ".", "5">>, <<"b">>, <<"x">>, <<>>, <<>>)}

----------------------------------------------------------------------------
(* Specification of the summary table read, report_main.main *)

AvgIdle ==
    /\ avg_exists = FALSE
    /\ avg_csv = <<>>
    /\ avg_rows = <<>>
    /\ avg_pc = "start"

AvgInit ==
    /\ avg_exists \in BOOLEAN
    /\ avg_csv \in (IF avg_exists THEN SeqsUpTo(AvgCsvRows, MaxAvgRows) ELSE {<<>>})
    /\ avg_rows = <<>>
    /\ avg_pc = "start"

\* the read of the summary table without the test avg_path.exists()
MainReadAvg_requiring_file ==
    /\ avg_pc = "start"
    /\ ~(avg_exists /\ read_avg_csv_raises(avg_csv))
    /\ IF avg_exists
       THEN avg_rows' = read_avg_csv(avg_csv) /\ avg_pc' = "read"
       ELSE avg_rows' = avg_rows /\ avg_pc' = "raised"
    /\ UNCHANGED <<avg_exists, avg_csv, stat_vars, det_vars, hol_vars, rep_vars>>

\* avg_rows = read_avg_csv(avg_path) if avg_path.exists() else []
MainReadAvg ==
    /\ avg_pc = "start"
    /\ ~(avg_exists /\ read_avg_csv_raises(avg_csv))
    /\ avg_rows' = (IF avg_exists THEN read_avg_csv(avg_csv) ELSE <<>>)
    /\ avg_pc' = "read"
    /\ UNCHANGED <<avg_exists, avg_csv, stat_vars, det_vars, hol_vars, rep_vars>>

\* the ValueError of read_avg_csv propagates out of main
MainReadAvgRaises ==
    /\ avg_pc = "start"
    /\ avg_exists /\ read_avg_csv_raises(avg_csv)
    /\ avg_pc' = "raised"
    /\ UNCHANGED <<avg_exists, avg_csv, avg_rows, stat_vars, det_vars, hol_vars, rep_vars>>

----------------------------------------------------------------------------
(* Specification of the detail table read and the per-day statistics,       *)
(* report_main.main                                                         *)

DetailsIdle ==
    /\ details_exists = FALSE
    /\ details_csv = <<>>
    /\ details_rows = <<>>
    /\ detail_stats_by_day = EmptyDict
    /\ det_pc = "start"

DetailsInit ==
    /\ details_exists \in BOOLEAN
    /\ details_csv \in (IF details_exists
                        THEN SeqsUpTo(DetailCsvRows, MaxDetailRows) ELSE {<<>>})
    /\ details_rows = <<>>
    /\ detail_stats_by_day = EmptyDict
    /\ det_pc = "start"

\* details_rows = read_details_csv(details_path) if details_path.exists() else []
\* is the statement after the read of the summary table
MainReadDetails ==
    /\ avg_pc = "read"
    /\ det_pc = "start"
    /\ details_rows' = (IF details_exists THEN read_details_csv(details_csv)
                        ELSE <<>>)
    /\ det_pc' = "read"
    /\ UNCHANGED <<details_exists, details_csv, detail_stats_by_day, stat_vars,
                   avg_vars, hol_vars, rep_vars>>

\* detail_stats_by_day = build_detail_stats_by_day(details_rows)
\*                       if details_rows else {}
MainBuildDetailStats ==
    /\ det_pc = "holidays"
    /\ detail_stats_by_day' = (IF details_rows # <<>>
                               THEN build_detail_stats_by_day(details_rows)
                               ELSE EmptyDict)
    /\ det_pc' = "stats"
    /\ UNCHANGED <<details_exists, details_csv, details_rows, stat_vars,
                   avg_vars, hol_vars, rep_vars>>

----------------------------------------------------------------------------
(* Holiday calculator, src/report_html.py *)

\* int(a / b) for b > 0: the quotient truncated towards zero
TruncDiv(a, b) == IF a >= 0 THEN a \div b ELSE -((-a) \div b)

_nth_weekday_of_month(y, month, weekday, n) ==
    LET offset == (weekday - Weekday(Date(y, month, 1))) % 7
    IN  Date(y, month, 1 + offset + 7 * (n - 1))

\* int(20.8431 + 0.242194 * (year - 1980) - int((year - 1980) / 4)), in
\* millionths; the float sum is never within rounding error of an integer
_vernal_equinox_day(y) ==
    Date(y, 3, TruncDiv(20843100 + 242194 * (y - 1980)
                            - 1000000 * TruncDiv(y - 1980, 4), 1000000))

_autumn_equinox_day(y) ==
    Date(y, 9, TruncDiv(23248800 + 242194 * (y - 1980)
                            - 1000000 * TruncDiv(y - 1980, 4), 1000000))

\* the set hols is seeded with
SeededHolidays(y) ==
    {Date(y, 1, 1), Date(y, 2, 11), Date(y, 2, 23),
     Date(y, 4, 29), Date(y, 5, 3), Date(y, 5, 4), Date(y, 5, 5),
     Date(y, 8, 11), Date(y, 11, 3), Date(y, 11, 23),
     _nth_weekday_of_month(y, 1, 0, 2), _nth_weekday_of_month(y, 7, 0, 3),
     _nth_weekday_of_month(y, 9, 0, 3), _nth_weekday_of_month(y, 10, 0, 2),
     _vernal_equinox_day(y), _autumn_equinox_day(y)}

\* sorted(hols) of a set of dates
RECURSIVE SortedDates(_)
SortedDates(S) ==
    IF S = {} THEN <<>>
    ELSE LET m == CHOOSE x \in S : \A z \in S : x <= z
         IN  <<m>> \o SortedDates(S \ {m})

NextFreeDay_next_day(d, holidays, added) == d + 1

\* the while True loop of the substitution: step to the next day until it is
\* neither in hols nor in added_substitute
RECURSIVE NextFreeDay(_, _, _)
NextFreeDay(d, holidays, added) ==
    IF (d + 1) \notin holidays /\ (d + 1) \notin added THEN d + 1
    ELSE NextFreeDay(d + 1, holidays, added)

HolidaysIdle ==
    /\ year = MinYear
    /\ hols = {}
    /\ added_substitute = {}
    /\ hol_todo = <<>>
    /\ hol_pc = "idle"

HolidaysInit ==
    /\ year \in MinYear..MaxYear
    /\ hols = {}
    /\ added_substitute = {}
    /\ hol_todo = <<>>
    /\ hol_pc = "start"

\* hols = {...}; added_substitute = set(); the loop starts over sorted(hols)
SeedHolidays ==
    /\ hol_pc = "start"
    /\ hols' = SeededHolidays(year)
    /\ added_substitute' = {}
    /\ hol_todo' = SortedDates(SeededHolidays(year))
    /\ hol_pc' = "substitute"
    /\ UNCHANGED <<year, stat_vars, avg_vars, det_vars, rep_vars>>

\* one iteration of: for h in sorted(hols)
SubstituteStep ==
    /\ hol_pc = "substitute"
    /\ hol_todo # <<>>
    /\ LET h == Head(hol_todo)
       IN  added_substitute' =
               (IF Weekday(h) = 6
                THEN added_substitute \cup {NextFreeDay(h, hols, added_substitute)}
                ELSE added_substitute)
    /\ hol_todo' = Tail(hol_todo)
    /\ UNCHANGED <<year, hols, hol_pc, stat_vars, avg_vars, det_vars, rep_vars>>

\* hols |= added_substitute
MergeSubstitutes ==
    /\ hol_pc = "substitute"
    /\ hol_todo = <<>>
    /\ hols' = hols \cup added_substitute
    /\ hol_pc' = "citizen"
    /\ UNCHANGED <<year, added_substitute, hol_todo, stat_vars, avg_vars, det_vars, rep_vars>>

AddCitizenHolidays_prev_only ==
    /\ hol_pc = "citizen"
    /\ LET added_citizen ==
               {d \in Date(year, 1, 1)..Date(year, 12, 31) :
                    /\ d \notin hols /\ Weekday(d) # 6
                    /\ (d - 1) \in hols}
       IN  hols' = hols \cup added_citizen
    /\ hol_pc' = "done"
    /\ UNCHANGED <<year, added_substitute, hol_todo, stat_vars, avg_vars, det_vars, rep_vars>>

\* the scan of the year for days between two holidays; hols |= added_citizen
AddCitizenHolidays ==
    /\ hol_pc = "citizen"
    /\ LET added_citizen ==
               {d \in Date(year, 1, 1)..Date(year, 12, 31) :
                    /\ d \notin hols /\ Weekday(d) # 6
                    /\ (d - 1) \in hols /\ (d + 1) \in hols}
       IN  hols' = hols \cup added_citizen
    /\ hol_pc' = "done"
    /\ UNCHANGED <<year, added_substitute, hol_todo, stat_vars, avg_vars, det_vars, rep_vars>>

----------------------------------------------------------------------------
(* Line chart, src/report_html.py *)

base_width == 1100

height == 480

margin_t == 20

margin_b == 50

chart_margin_l == 5

chart_margin_r == 20

\* a or b of Python for an Optional[int] a: None and 0 are both falsy
PyOr(a, b) == IF a = NoneVal THEN b ELSE IF Val(a) = 0 THEN b ELSE Val(a)

\* f"{v:.2f}" of the float num/den, as a count of hundredths; the values
\* formatted are quotients of small integers, so the float is closer to the
\* exact quotient than any non-tie is to a tie and the digits printed are
\* those of the exact quotient rounded half to even
Fmt2(num, den) ==
    IF den > 0 THEN PyRound(100 * num, den) ELSE PyRound(-100 * num, -den)

\* s.get(k) of the statistics of the date of r, None without statistics
StatOf(r, k, stats) ==
    IF r.checkin \in DOMAIN stats THEN stats[r.checkin][k] ELSE NoneVal

\* the values appended to xs for one row
XsOfRow(r, stats) ==
    (IF r.avg_price_yen # NoneVal THEN r.avg_price_yen ELSE <<>>)
        \o StatOf(r, "median", stats) \o StatOf(r, "p25", stats)
        \o StatOf(r, "p75", stats)

\* the loop collecting xs: every average and every daily median, p25, p75
RECURSIVE CollectXs(_, _)
CollectXs(rows, stats) ==
    IF rows = <<>> THEN <<>>
    ELSE XsOfRow(Head(rows), stats) \o CollectXs(Tail(rows), stats)

\* p25_values and p75_values: the daily k of the rows that have one
RECURSIVE CollectStat(_, _, _)
CollectStat(rows, k, stats) ==
    IF rows = <<>> THEN <<>>
    ELSE StatOf(Head(rows), k, stats) \o CollectStat(Tail(rows), k, stats)

chart_width_of(days_count) ==
    IF days_count > 30 THEN (base_width * days_count) \div 30 ELSE base_width

\* y_min, y_max
y_range(rows, stats) ==
    LET xs == CollectXs(rows, stats)
        p25_values == CollectStat(rows, "p25", stats)
        p75_values == CollectStat(rows, "p75", stats)
    IN  IF p25_values # <<>> /\ p75_values # <<>>
        THEN <<MinOf(p25_values), MaxOf(p75_values)>>
        ELSE IF xs # <<>>
        THEN <<PyOr(quantile(xs, P25), MinOf(xs)),
               PyOr(quantile(xs, P75), MaxOf(xs))>>
        ELSE <<0, 20000>>

\* x_at(i) and y_at(v) as printed with two decimals; i counts from 0
x_at(i, n) ==
    LET chart_w == chart_width_of(n) - chart_margin_l - chart_margin_r
    IN  IF n <= 1 THEN Fmt2(2 * chart_margin_l + chart_w, 2)
        ELSE Fmt2(chart_margin_l * (n - 1) + chart_w * i, n - 1)

y_at(v, y0, y1) ==
    LET h == height - margin_t - margin_b
    IN  IF y1 = y0 THEN Fmt2(2 * margin_t + h, 2)
        ELSE Fmt2(margin_t * (y1 - y0) + h * (y1 - v), y1 - y0)

series_value(r, key, stats) ==
    IF key = "avg" THEN r.avg_price_yen ELSE StatOf(r, key, stats)

\* the text f"{x_at(i):.2f},{y_at(v):.2f}" of row i + 1
PointOf(rows, i, v, y) == <<x_at(i, Len(rows)), y_at(v, y[1], y[2])>>

RECURSIVE polyline_loop_joining(_, _, _, _, _, _, _)
polyline_loop_joining(rows, key, stats, y, i, cur, segs) ==
    IF i >= Len(rows)
    THEN (IF Len(cur) >= 2 THEN Append(segs, cur) ELSE segs)
    ELSE LET v == series_value(rows[i + 1], key, stats)
         IN  IF v = NoneVal
             THEN polyline_loop_joining(rows, key, stats, y, i + 1, cur, segs)
             ELSE polyline_loop_joining(rows, key, stats, y, i + 1,
                      Append(cur, PointOf(rows, i, Val(v), y)), segs)

\* the loop of polyline_segments from row i + 1 on, with its cur and segs
RECURSIVE polyline_loop(_, _, _, _, _, _, _)
polyline_loop(rows, key, stats, y, i, cur, segs) ==
    IF i >= Len(rows)
    THEN (IF Len(cur) >= 2 THEN Append(segs, cur) ELSE segs)
    ELSE LET v == series_value(rows[i + 1], key, stats)
         IN  IF v = NoneVal
             THEN polyline_loop(rows, key, stats, y, i + 1, <<>>,
                      IF Len(cur) >= 2 THEN Append(segs, cur) ELSE segs)
             ELSE polyline_loop(rows, key, stats, y, i + 1,
                      Append(cur, PointOf(rows, i, Val(v), y)), segs)

polyline_segments(rows, key, stats, y) ==
    polyline_loop(rows, key, stats, y, 0, <<>>, <<>>)

\* avg_points from row i + 1 on: one marker per row that has an average
RECURSIVE avg_points(_, _, _)
avg_points(rows, y, i) ==
    IF i >= Len(rows) THEN <<>>
    ELSE IF rows[i + 1].avg_price_yen = NoneVal THEN avg_points(rows, y, i + 1)
    ELSE <<PointOf(rows, i, Val(rows[i + 1].avg_price_yen), y)>>
             \o avg_points(rows, y, i + 1)

SeriesKeys == {"avg", "median", "p25", "p75"}

NoSegs == [key \in SeriesKeys |-> <<>>]

\* the averages a summary row may carry
ChartAvgValues == {NoneVal, Some(0), Some(1), Some(30)}

\* summary rows on consecutive dates from 23 January 2026 on
ChartRowsOf(avgs) ==
    [i \in DOMAIN avgs |-> [checkin |-> D23 + i - 1, avg_price_yen |-> avgs[i]]]

ChartDetail(d, price) == [checkin |-> d, price_yen |-> price]

\* the detail rows the statistics handed to the chart are built from
ChartDetailRows ==
    {<<>>,
     <<ChartDetail(D23, 10)>>,
     <<ChartDetail(D23, 10), ChartDetail(D23, 40)>>,
     <<ChartDetail(D24, 20)>>,
     <<ChartDetail(D23, 10), ChartDetail(D24, 20), ChartDetail(D23 + 3, 30),
       ChartDetail(D23, 40)>>,
     <<ChartDetail(D23 + 7, 10)>>}

ChartIdle ==
    /\ chart_avg_rows = <<>>
    /\ chart_stats_by_day = EmptyDict
    /\ chart_out = "idle"
    /\ chart_y = NoneVal
    /\ chart_segs = NoSegs
    /\ chart_avg_points = <<>>

ChartInit ==
    /\ \E n \in 0..MaxChartRows : \E avgs \in [1..n -> ChartAvgValues] :
          chart_avg_rows = ChartRowsOf(avgs)
    /\ \E rows \in ChartDetailRows :
          chart_stats_by_day = build_detail_stats_by_day(rows)
    /\ chart_out = "none"
    /\ chart_y = NoneVal
    /\ chart_segs = NoSegs
    /\ chart_avg_points = <<>>

SvgLineChart_no_early_return ==
    /\ chart_out = "none"
    /\ LET y == y_range(chart_avg_rows, chart_stats_by_day)
       IN  /\ chart_out' = "svg"
           /\ chart_y' = Some(y)
           /\ chart_segs' = [key \in SeriesKeys |->
                                polyline_segments(chart_avg_rows, key,
                                                  chart_stats_by_day, y)]
           /\ chart_avg_points' = avg_points(chart_avg_rows, y, 0)
    /\ UNCHANGED <<chart_avg_rows, chart_stats_by_day, stat_vars, avg_vars,
                   det_vars, hol_vars, wd_vars, pay_vars, main_vars, fs_vars,
                   ext_vars>>

\* one call of svg_line_chart: the no-data paragraph when xs is empty,
\* otherwise the axis range and the polylines of the four series
SvgLineChart ==
    /\ chart_out = "none"
    /\ IF CollectXs(chart_avg_rows, chart_stats_by_day) = <<>>
       THEN /\ chart_out' = "placeholder"
            /\ chart_y' = NoneVal
            /\ chart_segs' = NoSegs
            /\ chart_avg_points' = <<>>
       ELSE LET y == y_range(chart_avg_rows, chart_stats_by_day)
            IN  /\ chart_out' = "svg"
                /\ chart_y' = Some(y)
                /\ chart_segs' = [key \in SeriesKeys |->
                                     polyline_segments(chart_avg_rows, key,
                                                       chart_stats_by_day, y)]
                /\ chart_avg_points' = avg_points(chart_avg_rows, y, 0)
    /\ UNCHANGED <<chart_avg_rows, chart_stats_by_day, stat_vars, avg_vars,
                   det_vars, hol_vars, wd_vars, pay_vars, main_vars, fs_vars,
                   ext_vars>>

ChartNext == SvgLineChart

----------------------------------------------------------------------------
(* Weekday classification, src/report_html.py *)

weekday_class_weekend_first(d, holidays) ==
    IF Weekday(d) = 5 THEN "sat"
    ELSE IF Weekday(d) = 6 THEN "sun"
    ELSE IF d \in holidays THEN "holiday"
    ELSE "weekday"

weekday_class(d, holidays) ==
    IF d \in holidays THEN "holiday"
    ELSE IF Weekday(d) = 5 THEN "sat"
    ELSE IF Weekday(d) = 6 THEN "sun"
    ELSE "weekday"

weekday_color(d, holidays) ==
    LET cls == weekday_class(d, holidays)
    IN  IF cls = "holiday" THEN "#16a34a"
        ELSE IF cls = "sat" THEN "#2563eb"
        ELSE IF cls = "sun" THEN "#dc2626"
        ELSE "#666"

WeekdayIdle ==
    /\ wd_d = 0
    /\ wd_class = "none"
    /\ wd_color = "none"

\* the renderers classify a date of the year against the holidays computed
CallWeekdayClass ==
    /\ hol_pc = "done"
    /\ wd_class = "none"
    /\ \E d \in Date(year, 1, 1)..Date(year, 12, 31) :
          /\ wd_d' = d
          /\ wd_class' = weekday_class(d, hols)
          /\ wd_color' = weekday_color(d, hols)
    /\ UNCHANGED <<stat_vars, avg_vars, det_vars, hol_vars, chart_vars, pay_vars,
                   main_vars, fs_vars, ext_vars>>

\* _japan_holidays_for_year step by step, then a classification of one date
HolidaysNext ==
    \/ SeedHolidays
    \/ SubstituteStep
    \/ MergeSubstitutes
    \/ AddCitizenHolidays
    \/ CallWeekdayClass

----------------------------------------------------------------------------
(* Escaping, src/report_html.py and src/report_main.py *)

\* old starts at position i of t
OccursAt(t, i, old) ==
    /\ i >= 1
    /\ i + Len(old) - 1 <= Len(t)
    /\ SubSeq(t, i, i + Len(old) - 1) = old

\* what position i of t contributes to t.replace(old, new), for an old that
\* cannot overlap itself (every old the code replaces is one character, or "</")
ReplacedAt(t, i, old, new) ==
    IF OccursAt(t, i, old) THEN new
    ELSE IF \E k \in 1..(Len(old) - 1) : OccursAt(t, i - k, old) THEN <<>>
    ELSE <<t[i]>>

RECURSIVE ReplaceRange(_, _, _, _, _)
ReplaceRange(t, lo, hi, old, new) ==
    IF lo > hi THEN <<>>
    ELSE IF lo = hi THEN ReplacedAt(t, lo, old, new)
    ELSE ReplaceRange(t, lo, (lo + hi) \div 2, old, new)
             \o ReplaceRange(t, (lo + hi) \div 2 + 1, hi, old, new)

\* t.replace(old, new)
Replace(t, old, new) == ReplaceRange(t, 1, Len(t), old, new)

\* sub in t, for texts
Contains(t, sub) == \E i \in 1..Len(t) : OccursAt(t, i, sub)

\* xml.sax.saxutils.escape(s, {'"': "&quot;", "'": "&#x27;"}): & first, then
\* >, then <, then the entities handed in
escape(t) ==
    LET amp  == Replace(t, <<"&">>, <<"&", "a", "m", "p", ";">>)
        gt   == Replace(amp, <<">">>, <<"&", "g", "t", ";">>)
        lt   == Replace(gt, <<"<">>, <<"&", "l", "t", ";">>)
        quot == Replace(lt, <<"\"">>, <<"&", "q", "u", "o", "t", ";">>)
    IN  Replace(quot, <<"'">>, <<"&", "#", "x", "2", "7", ";">>)

\* the characters json.dumps(..., ensure_ascii=False) puts between the quotes
\* of a string whose characters are printable: \ and " get a backslash
json_string(t) ==
    Replace(Replace(t, <<"\\">>, <<"\\", "\\">>), <<"\"">>, <<"\\", "\"">>)

\* .replace("</", "<\\/") on the dumped text; inside the dumped text "</" can
\* only occur within a string
close_tags_replaced(t) == Replace(t, <<"<", "/">>, <<"<", "\\", "/">>)

----------------------------------------------------------------------------
(* Detail payload, src/report_html.py *)

\* the year, month and day of a date given by its ordinal
RECURSIVE YearFrom(_, _)
YearFrom(y, d) == IF d <= DaysBeforeYear(y + 1) THEN y ELSE YearFrom(y + 1, d)

YearOf(d) == YearFrom(d \div 366, d)

RECURSIVE MonthFrom(_, _, _)
MonthFrom(y, m, d) ==
    IF d <= DaysBeforeYear(y) + DaysBeforeMonth(y, m) + DaysInMonth(y, m)
    THEN m ELSE MonthFrom(y, m + 1, d)

MonthOf(d) == MonthFrom(YearOf(d), 1, d)

DayOf(d) == d - DaysBeforeYear(YearOf(d)) - DaysBeforeMonth(YearOf(d), MonthOf(d))

DigitChars == <<"0", "1", "2", "3", "4", "5", "6", "7", "8", "9">>

\* the decimal digits of n, zero-padded to the width
RECURSIVE ZeroPad(_, _)
ZeroPad(n, width) ==
    IF width <= 1 /\ n < 10 THEN <<DigitChars[n + 1]>>
    ELSE ZeroPad(n \div 10, width - 1) \o <<DigitChars[(n % 10) + 1]>>

\* date.isoformat(): YYYY-MM-DD
isoformat(d) ==
    ZeroPad(YearOf(d), 4) \o <<"-">> \o ZeroPad(MonthOf(d), 2)
        \o <<"-">> \o ZeroPad(DayOf(d), 2)

\* the parts of fmt_date_jp_with_weekday_html that vary: the date printed,
\* the weekday printed and the class of the span
fmt_date_jp_with_weekday_html(d, holidays) ==
    [ymd |-> <<YearOf(d), MonthOf(d), DayOf(d)>>,
     w |-> Weekday(d),
     w_cls |-> weekday_class(d, holidays)]

\* by_day[r.checkin].append(r) on a defaultdict(list)
RowsByDayStep(by_day, r) ==
    IF r.checkin \in DOMAIN by_day
    THEN [by_day EXCEPT ![r.checkin] = Append(@, r)]
    ELSE [d \in DOMAIN by_day \cup {r.checkin} |->
             IF d = r.checkin THEN <<r>> ELSE by_day[d]]

RECURSIVE GroupRowsByDay(_)
GroupRowsByDay(rows) ==
    IF rows = <<>> THEN EmptyDict
    ELSE RowsByDayStep(GroupRowsByDay(SubSeq(rows, 1, Len(rows) - 1)),
                       rows[Len(rows)])

RECURSIVE InsertByPrice(_, _)
InsertByPrice(x, s) ==
    IF s = <<>> THEN <<x>>
    ELSE IF x.price_yen < Head(s).price_yen THEN <<x>> \o s
    ELSE <<Head(s)>> \o InsertByPrice(x, Tail(s))

sorted_by_price_unsorted(rows) == rows

\* sorted(by_day[d], key=lambda x: x.price_yen): stable
RECURSIVE sorted_by_price(_)
sorted_by_price(rows) ==
    IF rows = <<>> THEN <<>>
    ELSE InsertByPrice(rows[Len(rows)],
                       sorted_by_price(SubSeq(rows, 1, Len(rows) - 1)))

\* the dictionary built for one detail row
PayloadRowOf(r) ==
    [price |-> r.price_yen, url |-> r.listing_url, label |-> r.raw_label,
     title |-> r.title, guests |-> r.guests, bedrooms |-> r.bedrooms,
     beds |-> r.beds, reviews_count |-> r.reviews_count, rating |-> r.rating,
     subtitle |-> r.subtitle]

\* payload[d.isoformat()] = {...} for d in sorted(by_day.keys()): a later
\* date would replace an earlier one under the same key
build_detail_payload_by_day(rows, holidays) ==
    LET by_day == GroupRowsByDay(rows)
        keys == {isoformat(d) : d \in DOMAIN by_day}
    IN  [k \in keys |->
            LET d == CHOOSE e \in DOMAIN by_day :
                         /\ isoformat(e) = k
                         /\ \A f \in DOMAIN by_day : isoformat(f) = k => f <= e
                sorted_rows == sorted_by_price(by_day[d])
            IN  [dateLabelHtml |-> fmt_date_jp_with_weekday_html(d, holidays),
                 wcls |-> weekday_class(d, holidays),
                 rows |-> [i \in DOMAIN sorted_rows |-> PayloadRowOf(sorted_rows[i])]]]

\* the detail rows that parse, as read_details_csv builds them
PayloadRowSet ==
    {DetailRowOf(r) : r \in {c \in DetailCsvRows :
                                /\ _parse_date(c.checkin) # NoneVal
                                /\ _parse_int(c.price_yen) # NoneVal}}

PayloadHolidaySets == {{}, {D24}}

PayloadIdle ==
    /\ pay_details_rows = <<>>
    /\ pay_holidays = {}
    /\ pay_result = EmptyDict
    /\ pay_pc = "idle"

PayloadInit ==
    /\ pay_details_rows \in SeqsUpTo(PayloadRowSet, MaxPayloadRows)
    /\ pay_holidays \in PayloadHolidaySets
    /\ pay_result = EmptyDict
    /\ pay_pc = "start"

\* one call of build_detail_payload_by_day
BuildDetailPayload ==
    /\ pay_pc = "start"
    /\ pay_result' = build_detail_payload_by_day(pay_details_rows, pay_holidays)
    /\ pay_pc' = "done"
    /\ UNCHANGED <<pay_details_rows, pay_holidays, stat_vars, avg_vars,
                   det_vars, hol_vars, wd_vars, chart_vars, main_vars, fs_vars,
                   ext_vars>>

\* Math.round(num/den) for den > 0: the nearest integer, exact halves go up
JsRound(num, den) == (2 * num + den) \div (2 * den)

\* mean(arr) of the script
js_mean(arr) ==
    IF arr = <<>> THEN NoneVal ELSE Some(JsRound(SumSeq(arr), Len(arr)))

\* median(arr) of the script; m = Math.floor(xs.length/2) indexes from 0
js_median(arr) ==
    IF arr = <<>> THEN NoneVal
    ELSE LET xs == SortedInts(arr)
             m  == Len(xs) \div 2
         IN  IF Len(xs) % 2 = 1 THEN Some(xs[m + 1])
             ELSE Some(JsRound(xs[m] + xs[m + 1], 2))

\* quantile(arr, p) of the script: i = (n-1)*p is inum/p.den, w is wnum/p.den
js_quantile(arr, p) ==
    IF arr = <<>> THEN NoneVal
    ELSE LET xs == SortedInts(arr)
             n  == Len(xs)
             inum == (n - 1) * p.num
             lo == inum \div p.den
             hi == Min2(lo + 1, n - 1)
             wnum == inum - lo * p.den
         IN  IF n = 1 THEN Some(xs[1])
             ELSE Some(JsRound(xs[lo + 1] * (p.den - wnum) + xs[hi + 1] * wnum,
                               p.den))

ModalIdle ==
    /\ modal_day = NoneVal
    /\ modal_stats = NoneVal

\* openDayModal(isoDate) for a date of the payload: prices are the prices of
\* the rows of the date, the pills show their statistics
OpenDayModal ==
    /\ pay_pc = "done"
    /\ \E k \in DOMAIN pay_result :
          LET prices == [i \in DOMAIN pay_result[k].rows |->
                            pay_result[k].rows[i].price]
          IN  /\ modal_day' = Some(k)
              /\ modal_stats' = Some([mean   |-> js_mean(prices),
                                      median |-> js_median(prices),
                                      p25    |-> js_quantile(prices, P25),
                                      p75    |-> js_quantile(prices, P75)])
    /\ pay_pc' = "modal"
    /\ UNCHANGED <<pay_details_rows, pay_holidays, pay_result, tab_vars, sel_vars,
                   run_vars, stat_vars, avg_vars, det_vars, hol_vars, wd_vars,
                   chart_vars, main_vars, fs_vars>>

PayloadNext ==
    \/ BuildDetailPayload
    \/ OpenDayModal

----------------------------------------------------------------------------
(* The holidays of a date range, src/report_html.py *)

\* the substitution loop of _japan_holidays_for_year run to its end
RECURSIVE SubstituteLoop(_, _, _)
SubstituteLoop(todo, seeded, added) ==
    IF todo = <<>> THEN added
    ELSE SubstituteLoop(Tail(todo), seeded,
             IF Weekday(Head(todo)) = 6
             THEN added \cup {NextFreeDay(Head(todo), seeded, added)}
             ELSE added)

_japan_holidays_for_year(y) ==
    LET seeded == SeededHolidays(y)
        substituted == seeded \cup SubstituteLoop(SortedDates(seeded), seeded, {})
        added_citizen ==
            {d \in Date(y, 1, 1)..Date(y, 12, 31) :
                 /\ d \notin substituted /\ Weekday(d) # 6
                 /\ (d - 1) \in substituted /\ (d + 1) \in substituted}
    IN  substituted \cup added_citizen

load_jp_holidays_for_range(start_d, end_d) ==
    LET out == UNION {_japan_holidays_for_year(y) : y \in YearOf(start_d)..YearOf(end_d)}
    IN  {d \in out : start_d <= d /\ d <= end_d}

----------------------------------------------------------------------------
(* The document, src/report_main.py and src/report_html.py *)

\* https://www.airbnb.jp/s/{quote(destination)}/homes? with the default
\* destination; the environment variables of build_search_url are not set
SearchUrlHead ==
    <<"h", "t", "t", "p", "s", ":", "/", "/", "w", "w", "w", ".", "a", "i",
      "r", "b", "n", "b", ".", "j", "p", "/", "s", "/", "%", "E", "5", "%",
      "A", "4", "%", "A", "7", "%", "E", "9", "%", "9", "8", "%", "A", "A",
      "%", "E", "5", "%", "B", "8", "%", "8", "2", "%", "2", "0", "%", "E",
      "6", "%", "A", "D", "%", "A", "4", "%", "E", "8", "%", "8", "A", "%",
      "B", "1", "%", "E", "5", "%", "8", "C", "%", "B", "A", "/", "h", "o",
      "m", "e", "s", "?">>

SearchUrlTail ==
    <<"&", "a", "d", "u", "l", "t", "s", "=", "4", "&", "c", "h", "i", "l",
      "d", "r", "e", "n", "=", "0", "&", "i", "n", "f", "a", "n", "t", "s",
      "=", "0", "&", "p", "e", "t", "s", "=", "0">>

build_search_url(checkin, checkout) ==
    SearchUrlHead \o <<"c", "h", "e", "c", "k", "i", "n", "=">> \o isoformat(checkin)
        \o <<"&", "c", "h", "e", "c", "k", "o", "u", "t", "=">> \o isoformat(checkout)
        \o SearchUrlTail

get_or_build_search_url(r) ==
    IF /\ r.url # <<>>
       /\ Contains(r.url, <<"c", "h", "e", "c", "k", "i", "n", "=">>)
       /\ Contains(r.url, <<"a", "d", "u", "l", "t", "s", "=">>)
    THEN r.url
    ELSE build_search_url(r.checkin, r.checkin + 1)

----------------------------------------------------------------------------
(* Monthly summary and daily table, src/report_html.py and src/report_data.py *)

\* f"{n:,}" for n >= 0: the digits in groups of three
RECURSIVE Grouped(_)
Grouped(n) ==
    IF n < 1000 THEN ZeroPad(n, 1)
    ELSE Grouped(n \div 1000) \o <<",">> \o ZeroPad(n % 1000, 3)

\* "-" for None, else the yen sign, written "yen", and f"{v:,}"
fmt_yen(v) ==
    IF v = NoneVal THEN <<"-">>
    ELSE <<"yen">> \o (IF Val(v) < 0 THEN <<"-">> \o Grouped(-Val(v))
                       ELSE Grouped(Val(v)))

MonthKey(r) == <<YearOf(r.checkin), MonthOf(r.checkin)>>

MonthKeyLess(a, b) == a[1] < b[1] \/ (a[1] = b[1] /\ a[2] < b[2])

\* sorted(by_month.items()): the keys in ascending order
RECURSIVE SortedMonthKeys(_)
SortedMonthKeys(keys) ==
    IF keys = {} THEN <<>>
    ELSE LET first == CHOOSE k \in keys : \A o \in keys : o = k \/ MonthKeyLess(k, o)
         IN  <<first>> \o SortedMonthKeys(keys \ {first})

group_by_month_unmerged(rows) ==
    [i \in DOMAIN rows |-> [key |-> MonthKey(rows[i]), rows |-> <<rows[i]>>]]

\* the items of the returned dict in their order: every (year, month) with
\* the rows appended to it, in the order of the rows
group_by_month(rows) ==
    LET keys == SortedMonthKeys({MonthKey(rows[i]) : i \in DOMAIN rows})
    IN  [j \in DOMAIN keys |->
            LET InMonth(r) == MonthKey(r) = keys[j]
            IN  [key |-> keys[j], rows |-> SelectSeq(rows, InMonth)]]

\* [r.avg_price_yen for r in month_rows if r.avg_price_yen is not None]
RECURSIVE CollectAvgs(_)
CollectAvgs(rows) ==
    IF rows = <<>> THEN <<>>
    ELSE Head(rows).avg_price_yen \o CollectAvgs(Tail(rows))

\* the cells of one row of the monthly table
MonthlyRowOf(item, stats) ==
    LET month_mins == CollectStat(item.rows, "min", stats)
        month_maxs == CollectStat(item.rows, "max", stats)
    IN  [month_label |-> item.key[2],
         days   |-> Len(item.rows),
         mean   |-> escape(fmt_yen(mean_int(CollectAvgs(item.rows)))),
         median |-> escape(fmt_yen(mean_int(CollectStat(item.rows, "median", stats)))),
         p25    |-> escape(fmt_yen(mean_int(CollectStat(item.rows, "p25", stats)))),
         p75    |-> escape(fmt_yen(mean_int(CollectStat(item.rows, "p75", stats)))),
         min    |-> escape(fmt_yen(IF month_mins # <<>> THEN Some(MinOf(month_mins))
                                   ELSE NoneVal)),
         max    |-> escape(fmt_yen(IF month_maxs # <<>> THEN Some(MaxOf(month_maxs))
                                   ELSE NoneVal))]

\* the rows of the tbody of html_monthly_summary
html_monthly_summary(rows, stats) ==
    LET by_month == group_by_month(rows)
    IN  [j \in DOMAIN by_month |-> MonthlyRowOf(by_month[j], stats)]

has_details_always(r, stats) == TRUE

\* has_details = r.checkin in detail_stats_by_day
has_details(r, stats) == r.checkin \in DOMAIN stats

\* the cells of one row of the daily table but for its link: the button with
\* the date its onclick opens, None for a disabled button
TableRowOf(r, stats, holidays) ==
    [button |-> IF has_details(r, stats) THEN Some(isoformat(r.checkin)) ELSE NoneVal,
     date   |-> fmt_date_jp_with_weekday_html(r.checkin, holidays),
     avg    |-> escape(fmt_yen(r.avg_price_yen)),
     median |-> escape(fmt_yen(StatOf(r, "median", stats))),
     p25    |-> escape(fmt_yen(StatOf(r, "p25", stats))),
     p75    |-> escape(fmt_yen(StatOf(r, "p75", stats))),
     count  |-> r.count,
     min    |-> escape(fmt_yen(r.min_price_yen)),
     max    |-> escape(fmt_yen(r.max_price_yen))]

\* the rows of the tbody of html_table_avg
html_table_avg(rows, stats, holidays) ==
    [i \in DOMAIN rows |-> TableRowOf(rows[i], stats, holidays)]

\* the summary rows the tables are called with: a row without an average, a
\* row with the average 0 and a row with an average of four digits on the
\* last day of a month, the first day of the next month and a day of the
\* same month number of the next year, and a row with a negative minimum and
\* a maximum of seven digits
TabDates == {Date(2026, 1, 31), Date(2026, 2, 1), Date(2027, 1, 1)}

TabRow(d, avg, lo, hi) ==
    [checkin |-> d, avg_price_yen |-> avg, count |-> 1, min_price_yen |-> lo,
     max_price_yen |-> hi, url |-> <<>>]

TabRowSet ==
    {TabRow(d, avg, avg, NoneVal) : d \in TabDates, avg \in {NoneVal, Some(0), Some(1500)}}
        \cup {TabRow(Date(2026, 2, 1), Some(12), Some(-5), Some(1234567))}

TabDetailRows ==
    {<<>>,
     <<ChartDetail(Date(2026, 1, 31), 10)>>,
     <<ChartDetail(Date(2026, 1, 31), 10), ChartDetail(Date(2026, 1, 31), 15),
       ChartDetail(Date(2026, 2, 1), 1200)>>,
     <<ChartDetail(Date(2026, 2, 1), 0), ChartDetail(Date(2027, 1, 1), 3),
       ChartDetail(Date(2026, 3, 1), 7)>>}

TabIdle ==
    /\ tab_avg_rows = <<>>
    /\ tab_details_rows = <<>>
    /\ tab_stats_by_day = EmptyDict
    /\ tab_holidays = {}
    /\ tab_monthly = <<>>
    /\ tab_table = <<>>
    /\ tab_pc = "idle"

\* the summary rows are in the order read_avg_csv returns them in, the
\* statistics are those of the detail rows
TabInit ==
    /\ tab_avg_rows \in {rows \in SeqsUpTo(TabRowSet, MaxTabRows) :
                            \A i \in 1..(Len(rows) - 1) :
                                rows[i].checkin <= rows[i + 1].checkin}
    /\ tab_details_rows \in TabDetailRows
    /\ tab_stats_by_day = build_detail_stats_by_day(tab_details_rows)
    /\ tab_holidays \in {{}, {Date(2027, 1, 1)}}
    /\ tab_monthly = <<>>
    /\ tab_table = <<>>
    /\ tab_pc = "start"

\* html_monthly_summary(avg_rows, detail_stats_by_day)
HtmlMonthlySummary ==
    /\ tab_pc = "start"
    /\ tab_monthly' = html_monthly_summary(tab_avg_rows, tab_stats_by_day)
    /\ tab_pc' = "monthly"
    /\ UNCHANGED <<tab_avg_rows, tab_details_rows, tab_stats_by_day, tab_holidays,
                   tab_table, sel_vars, run_vars, modal_vars, stat_vars, avg_vars, det_vars,
                   hol_vars, wd_vars, chart_vars, pay_vars, main_vars, fs_vars>>

\* html_table_avg(avg_rows, detail_stats_by_day, holidays)
HtmlTableAvg ==
    /\ tab_pc = "monthly"
    /\ tab_table' = html_table_avg(tab_avg_rows, tab_stats_by_day, tab_holidays)
    /\ tab_pc' = "done"
    /\ UNCHANGED <<tab_avg_rows, tab_details_rows, tab_stats_by_day, tab_holidays,
                   tab_monthly, sel_vars, run_vars, modal_vars, stat_vars, avg_vars, det_vars,
                   hol_vars, wd_vars, chart_vars, pay_vars, main_vars, fs_vars>>

TablesNext ==
    \/ HtmlMonthlySummary
    \/ HtmlTableAvg

----------------------------------------------------------------------------
(* The selection of the best and the worst day, src/report.py *)

\* 10**18, which no average reaches: the greatest integer of the model
BestDefault == 2147483647

\* one pass of the loop body: rows without an average are skipped
SelectStep(bw, r) ==
    IF r.avg_price_yen = NoneVal THEN bw
    ELSE [best  |-> IF \/ bw.best = NoneVal
                       \/ Val(r.avg_price_yen)
                              < PyOr(Val(bw.best).avg_price_yen, BestDefault)
                    THEN Some(r) ELSE bw.best,
          worst |-> IF \/ bw.worst = NoneVal
                       \/ Val(r.avg_price_yen)
                              > PyOr(Val(bw.worst).avg_price_yen, -1)
                    THEN Some(r) ELSE bw.worst]

\* for r in avg_rows, from best = worst = None
RECURSIVE SelectLoop(_)
SelectLoop(rows) ==
    IF rows = <<>> THEN [best |-> NoneVal, worst |-> NoneVal]
    ELSE SelectStep(SelectLoop(SubSeq(rows, 1, Len(rows) - 1)), rows[Len(rows)])

SelIdle ==
    /\ sel_avg_rows = <<>>
    /\ best = NoneVal
    /\ worst = NoneVal
    /\ sel_pc = "idle"

\* summary rows on consecutive dates, with the averages of the chart
SelInit ==
    /\ \E n \in 0..MaxSelRows : \E avgs \in [1..n -> ChartAvgValues] :
          sel_avg_rows = ChartRowsOf(avgs)
    /\ best = NoneVal
    /\ worst = NoneVal
    /\ sel_pc = "start"

\* the selection loop of report.main
SelectBestWorst ==
    /\ sel_pc = "start"
    /\ best' = SelectLoop(sel_avg_rows).best
    /\ worst' = SelectLoop(sel_avg_rows).worst
    /\ sel_pc' = "done"
    /\ UNCHANGED <<sel_avg_rows, tab_vars, run_vars, modal_vars, stat_vars, avg_vars, det_vars,
                   hol_vars, wd_vars, chart_vars, pay_vars, main_vars, fs_vars>>

SelectNext == SelectBestWorst

----------------------------------------------------------------------------
(* Runs that overlap on one output path, src/report_main.py *)

RunIdle ==
    /\ run_pc = <<>>
    /\ run_ts = <<>>
    /\ run_i = <<>>
    /\ run_overlap = FALSE

----------------------------------------------------------------------------
(* The parts of the document, src/report_main.py *)

\* datetime.now().strftime("%Y-%m-%d %H:%M"): the clock counts half seconds
\* from 2026-11-03 10:00:00 and stays within the hour
FMT_GENERATED_AT(t) ==
    <<"2", "0", "2", "6", "-", "1", "1", "-", "0", "3", " ", "1", "0", ":">>
        \o ZeroPad((t \div 120) % 60, 2)

\* svg_line_chart as a function of its arguments
svg_line_chart(rows, stats) ==
    IF CollectXs(rows, stats) = <<>>
    THEN [out |-> "placeholder", y |-> NoneVal, segs |-> NoSegs]
    ELSE LET y == y_range(rows, stats)
         IN  [out |-> "svg", y |-> Some(y),
              segs |-> [key \in SeriesKeys |-> polyline_segments(rows, key, stats, y)]]

\* a string of the payload as it stands between its quotes in the document
json_text(t) == close_tags_replaced(json_string(t))

\* json.dumps(detail_payload_by_day, ensure_ascii=False).replace("</", "<\\/"):
\* the structure is kept, every string taken from a detail row is in its
\* dumped form
json_payload(payload) ==
    [k \in DOMAIN payload |->
        [dateLabelHtml |-> payload[k].dateLabelHtml,
         wcls |-> payload[k].wcls,
         rows |-> [i \in DOMAIN payload[k].rows |->
                      LET r == payload[k].rows[i]
                      IN  [r EXCEPT !.url = json_text(r.url),
                                    !.label = json_text(r.label),
                                    !.title = json_text(r.title),
                                    !.subtitle = IF r.subtitle = NoneVal THEN NoneVal
                                                 ELSE Some(json_text(Val(r.subtitle)))]]]]

\* the href of the link of each row of html_table_avg
TableHrefs(rows) ==
    [i \in DOMAIN rows |-> escape(get_or_build_search_url(rows[i]))]

\* html_parts: the parts of the document that are not fixed markup; without
\* summary rows the card of the summary table that could not be read stands
\* in the place of the summary, the chart and the daily table
DocOf(the_title, rows, stats, hols_in_range, payload, no_details, t) ==
    [title |-> escape(the_title),
     payload |-> json_payload(payload),
     heading |-> escape(the_title),
     date_range |-> IF rows # <<>>
                    THEN LET dates == [i \in DOMAIN rows |-> rows[i].checkin]
                         IN  Some(<<MinOf(dates), MaxOf(dates)>>)
                    ELSE NoneVal,
     generated_at |-> escape(FMT_GENERATED_AT(t)),
     summary |-> IF rows # <<>>
                 THEN Some([monthly |-> html_monthly_summary(rows, stats),
                            chart |-> svg_line_chart(rows, stats),
                            table |-> html_table_avg(rows, stats, hols_in_range),
                            label_colors |-> [i \in DOMAIN rows |->
                                                 weekday_color(rows[i].checkin, hols_in_range)],
                            hrefs |-> TableHrefs(rows)])
                 ELSE NoneVal,
     no_data_note |-> rows = <<>>,
     no_details_note |-> no_details]

----------------------------------------------------------------------------
(* Runs of main against one output path, src/report_main.py *)

\* how far the clock may have moved on when it is read again
ClockSteps == {0, 1, 120}

\* the rows of the tables main is run on
MainAvgRow1 ==
    AvgCsv(T_D23, <<"1", "0", "0", "0", "0">>, <<"2">>, <<"9", "0", "0", "0">>,
           <<"1", "1", "0", "0", "0">>, <<>>)

MainAvgRow2 ==
    AvgCsv(T_D24, <<"1", "2", "0", "0", "0">>, <<"1">>, <<>>, <<>>,
           <<"?", "c", "h", "e", "c", "k", "i", "n", "=", "1", "&", "a", "d", "u", "l", "t", "s", "=", "2", "'">>)

MainAvgRowBad ==
    AvgCsv(T_D24, <<"1", "2", "0", "0", "0">>, <<"a", "b", "c">>, <<>>, <<>>, <<>>)

MainDetailRow1 ==
    [DetailCsv(T_D23, <<"9", "0", "0", "0">>, <<"a", "&", "b", "\"">>,
               <<"<", "s", "c", "r", "i", "p", "t", ">", "a", "l", "e", "r", "t", "(", "1", ")", "<", "/", "s", "c", "r", "i", "p", "t", ">">>,
               <<"2">>, <<"4", ".", "5">>)
        EXCEPT !.raw_label = <<"<", "/", "b", ">">>, !.subtitle = <<"'", "\\">>]

MainDetailRow2 ==
    DetailCsv(T_D23, <<"1", "1", "0", "0", "0">>, <<"b">>, <<"x">>, <<>>, <<>>)

\* a listing of 11 February 2026, National Foundation Day
MainDetailRow3 ==
    DetailCsv(<<"2", "0", "2", "6", "-", "0", "2", "-", "1", "1">>,
              <<"8", "0", "0", "0">>, <<"c">>, <<"x">>, <<>>, <<>>)

MainTable(exists, csv) == [exists |-> exists, csv |-> csv]

MainAvgTables ==
    {MainTable(FALSE, <<>>), MainTable(TRUE, <<MainAvgRow1, MainAvgRow2>>),
     MainTable(TRUE, <<MainAvgRowBad>>)}

MainDetailTables ==
    {MainTable(FALSE, <<>>), MainTable(TRUE, <<MainDetailRow2, MainDetailRow1>>),
     MainTable(TRUE, <<MainDetailRow3, MainDetailRow2>>)}

MainTitles == {<<"x">>, <<"<", "&", "\"", "'", ">">>}

\* a file left at the output path by something else than these runs
OldArtifact ==
    [content |-> DocOf(<<"o", "l", "d">>, <<>>, EmptyDict, {}, EmptyDict, TRUE, 0),
     mtime |-> 0]

\* stem + strftime("%Y%m%d_%H%M%S") of the last-modified time + the suffix
\* _i (none for i = 1) + ".html": the second of the time and the suffix
HistoryName(mtime, i) == [stamp |-> mtime \div 2, i |-> i]

FirstFreeName_no_suffix(mtime, i, names) == HistoryName(mtime, i)

\* candidate, then the while candidate.exists() loop with i = 2, 3, ...
RECURSIVE FirstFreeName(_, _, _)
FirstFreeName(mtime, i, names) ==
    IF HistoryName(mtime, i) \notin names THEN HistoryName(mtime, i)
    ELSE FirstFreeName(mtime, i + 1, names)

MainIdle ==
    /\ args_title = <<>>
    /\ main_holidays = {}
    /\ detail_payload_by_day = EmptyDict
    /\ gen_time = 0
    /\ doc = NoneVal
    /\ candidate = NoneVal
    /\ runs_done = 0
    /\ now = 0

FsIdle ==
    /\ out_parent_exists = FALSE
    /\ out_file = NoneVal
    /\ history = EmptyDict

\* the first run about to start: the tables and the title it is run with,
\* and what the file system holds
MainInit ==
    /\ \E t \in MainAvgTables : avg_exists = t.exists /\ avg_csv = t.csv
    /\ avg_rows = <<>>
    /\ avg_pc = "start"
    /\ \E t \in MainDetailTables : details_exists = t.exists /\ details_csv = t.csv
    /\ details_rows = <<>>
    /\ detail_stats_by_day = EmptyDict
    /\ det_pc = "start"
    /\ args_title \in MainTitles
    /\ main_holidays = {}
    /\ detail_payload_by_day = EmptyDict
    /\ gen_time = 0
    /\ doc = NoneVal
    /\ candidate = NoneVal
    /\ runs_done = 0
    /\ now = 0
    /\ \/ /\ out_parent_exists = FALSE
          /\ out_file = NoneVal
          /\ history = EmptyDict
       \/ /\ out_parent_exists = TRUE
          /\ out_file = Some(OldArtifact)
          /\ history \in {EmptyDict,
                          [n \in {HistoryName(0, 1)} |-> OldArtifact]}

\* holidays of the range of the summary dates, else of the detail dates
MainLoadHolidays ==
    /\ det_pc = "read"
    /\ main_holidays' =
           (IF avg_rows # <<>>
            THEN load_jp_holidays_for_range(avg_rows[1].checkin,
                                            avg_rows[Len(avg_rows)].checkin)
            ELSE IF details_rows # <<>>
            THEN load_jp_holidays_for_range(details_rows[1].checkin,
                                            details_rows[Len(details_rows)].checkin)
            ELSE {})
    /\ det_pc' = "holidays"
    /\ UNCHANGED <<details_exists, details_csv, details_rows, detail_stats_by_day,
                   args_title, detail_payload_by_day, gen_time, doc, candidate,
                   runs_done, now, fs_vars, stat_vars, avg_vars, hol_vars,
                   wd_vars, chart_vars, pay_vars, ext_vars>>

\* detail_payload_by_day = build_detail_payload_by_day(details_rows, holidays)
\*                         if details_rows else {}
MainBuildPayload ==
    /\ det_pc = "stats"
    /\ detail_payload_by_day' =
           (IF details_rows # <<>>
            THEN build_detail_payload_by_day(details_rows, main_holidays)
            ELSE EmptyDict)
    /\ det_pc' = "payload"
    /\ UNCHANGED <<details_exists, details_csv, details_rows, detail_stats_by_day,
                   args_title, main_holidays, gen_time, doc, candidate,
                   runs_done, now, fs_vars, stat_vars, avg_vars, hol_vars,
                   wd_vars, chart_vars, pay_vars, ext_vars>>

\* the document written to the output path while it is put together
MainAssemble_writing ==
    /\ det_pc = "payload"
    /\ \E dt \in ClockSteps :
          /\ now + dt <= MaxNow
          /\ now' = now + dt
          /\ gen_time' = now + dt
          /\ doc' = Some(DocOf(args_title, avg_rows, detail_stats_by_day,
                               main_holidays, detail_payload_by_day,
                               details_rows = <<>>, now + dt))
          /\ out_file' = Some([content |-> DocOf(args_title, avg_rows,
                                                 detail_stats_by_day, main_holidays,
                                                 detail_payload_by_day,
                                                 details_rows = <<>>, now + dt),
                               mtime |-> now + dt])
    /\ det_pc' = "assembled"
    /\ UNCHANGED <<details_exists, details_csv, details_rows, detail_stats_by_day,
                   args_title, main_holidays, detail_payload_by_day, candidate,
                   runs_done, out_parent_exists, history, stat_vars, avg_vars,
                   hol_vars, wd_vars, chart_vars, pay_vars, ext_vars>>

\* html_parts from "<!DOCTYPE html>" to "</body></html>", the clock read on
\* the way
MainAssemble ==
    /\ det_pc = "payload"
    /\ \E dt \in ClockSteps :
          /\ now + dt <= MaxNow
          /\ now' = now + dt
          /\ gen_time' = now + dt
          /\ doc' = Some(DocOf(args_title, avg_rows, detail_stats_by_day,
                               main_holidays, detail_payload_by_day,
                               details_rows = <<>>, now + dt))
    /\ det_pc' = "assembled"
    /\ UNCHANGED <<details_exists, details_csv, details_rows, detail_stats_by_day,
                   args_title, main_holidays, detail_payload_by_day, candidate,
                   runs_done, fs_vars, stat_vars, avg_vars, hol_vars,
                   wd_vars, chart_vars, pay_vars, ext_vars>>

\* out_path.parent.mkdir(parents=True, exist_ok=True)
MainMkdir ==
    /\ det_pc = "assembled"
    /\ out_parent_exists' = TRUE
    /\ det_pc' = "mkdir"
    /\ UNCHANGED <<details_exists, details_csv, details_rows, detail_stats_by_day,
                   main_vars, out_file, history, stat_vars, avg_vars, hol_vars,
                   wd_vars, chart_vars, pay_vars, ext_vars>>

\* backup_existing_html(out_path): nothing without a file at the output
\* path, else the file is renamed to the first free history name
MainBackup ==
    /\ det_pc = "mkdir"
    /\ IF out_file = NoneVal
       THEN /\ candidate' = NoneVal
            /\ UNCHANGED <<out_file, history>>
       ELSE LET name == FirstFreeName(Val(out_file).mtime, 1, DOMAIN history)
            IN  /\ candidate' = Some(name)
                /\ history' = [n \in DOMAIN history \cup {name} |->
                                  IF n = name THEN Val(out_file) ELSE history[n]]
                /\ out_file' = NoneVal
    /\ det_pc' = "backup"
    /\ UNCHANGED <<details_exists, details_csv, details_rows, detail_stats_by_day,
                   args_title, main_holidays, detail_payload_by_day, gen_time,
                   doc, runs_done, now, out_parent_exists, stat_vars, avg_vars,
                   hol_vars, wd_vars, chart_vars, pay_vars, ext_vars>>

\* out_path.write_text("\n".join(html_parts)); the file gets the time of the
\* write as its last-modified time
MainWrite ==
    /\ det_pc = "backup"
    /\ \E dt \in ClockSteps :
          /\ now + dt <= MaxNow
          /\ now' = now + dt
          /\ out_file' = Some([content |-> Val(doc), mtime |-> now + dt])
    /\ det_pc' = "written"
    /\ UNCHANGED <<details_exists, details_csv, details_rows, detail_stats_by_day,
                   args_title, main_holidays, detail_payload_by_day, gen_time,
                   doc, candidate, runs_done, out_parent_exists, history,
                   stat_vars, avg_vars, hol_vars, wd_vars, chart_vars, pay_vars,
                   ext_vars>>

\* out_path.write_text raises OSError when it opens the file (the directory
\* is not writable, the disk is full): nothing is written, nothing in main
\* catches the exception and the run ends
MainWriteRaises ==
    /\ det_pc = "backup"
    /\ det_pc' = "write_raised"
    /\ UNCHANGED <<details_exists, details_csv, details_rows, detail_stats_by_day,
                   args_title, main_holidays, detail_payload_by_day, gen_time,
                   doc, candidate, runs_done, now, fs_vars, stat_vars, avg_vars,
                   hol_vars, wd_vars, chart_vars, pay_vars, ext_vars>>

\* the next run starts, with the same tables and arguments, the process of
\* the run before it having ended: the clock has moved on
MainStart ==
    /\ det_pc = "written"
    /\ runs_done + 1 < MaxRuns
    /\ runs_done' = runs_done + 1
    /\ \E dt \in ClockSteps \ {0} :
          /\ now + dt <= MaxNow
          /\ now' = now + dt
    /\ avg_rows' = <<>>
    /\ avg_pc' = "start"
    /\ details_rows' = <<>>
    /\ detail_stats_by_day' = EmptyDict
    /\ det_pc' = "start"
    /\ main_holidays' = {}
    /\ detail_payload_by_day' = EmptyDict
    /\ gen_time' = 0
    /\ doc' = NoneVal
    /\ candidate' = NoneVal
    /\ UNCHANGED <<avg_exists, avg_csv, details_exists, details_csv, args_title,
                   fs_vars, stat_vars, hol_vars, wd_vars, chart_vars, pay_vars,
                   ext_vars>>

MainNext ==
    \/ MainReadAvg
    \/ MainReadAvgRaises
    \/ MainReadDetails
    \/ MainLoadHolidays
    \/ MainBuildDetailStats
    \/ MainBuildPayload
    \/ MainAssemble
    \/ MainMkdir
    \/ MainBackup
    \/ MainWrite
    \/ MainWriteRaises
    \/ MainStart

----------------------------------------------------------------------------
(* Runs of main that overlap on one output path, from backup_existing_html
   on; every call into the file system is a step of its own *)

Runs == 1..MaxOverlap

\* the document of run p: the runs differ in their title
RunDoc(p) == DocOf([i \in 1..p |-> "x"], <<>>, EmptyDict, {}, EmptyDict, TRUE, 0)

\* a run between its first step and its end
InProgress(q) == run_pc[q] \notin {"exists", "done", "failed"}

\* run_overlap after a step of run p
OverlapAfter(p) == run_overlap \/ \E q \in Runs \ {p} : InProgress(q)

candidate_exists_never(ts, i, names) == FALSE

\* candidate.exists() for the candidate of the suffix i
candidate_exists(ts, i, names) == HistoryName(ts, i) \in names

\* what the steps of the runs leave alone
run_rest == <<stat_vars, avg_vars, det_vars, hol_vars, wd_vars, chart_vars,
              pay_vars, args_title, main_holidays, detail_payload_by_day,
              gen_time, doc, candidate, runs_done, out_parent_exists,
              tab_vars, sel_vars, modal_vars>>

\* both runs have put their document together and created the directory of
\* the output path; the output path holds an artifact or nothing
RunInit ==
    /\ run_pc = [p \in Runs |-> "exists"]
    /\ run_ts = [p \in Runs |-> NoneVal]
    /\ run_i = [p \in Runs |-> 1]
    /\ run_overlap = FALSE
    /\ out_parent_exists = TRUE
    /\ out_file \in {NoneVal, Some(OldArtifact)}
    /\ history = EmptyDict
    /\ args_title = <<>>
    /\ main_holidays = {}
    /\ detail_payload_by_day = EmptyDict
    /\ gen_time = 0
    /\ doc = NoneVal
    /\ candidate = NoneVal
    /\ runs_done = 0
    /\ now = 0

\* if not out_path.exists(): return
RunExists(p) ==
    /\ run_pc[p] = "exists"
    /\ run_pc' = [run_pc EXCEPT ![p] = IF out_file = NoneVal THEN "write"
                                       ELSE "stat"]
    /\ run_overlap' = OverlapAfter(p)
    /\ UNCHANGED <<run_ts, run_i, out_file, history, now, run_rest>>

\* ts = out_path.stat().st_mtime, with its except Exception: return when the
\* file is gone; candidate is the name without a suffix
RunStat(p) ==
    /\ run_pc[p] = "stat"
    /\ IF out_file = NoneVal
       THEN /\ run_pc' = [run_pc EXCEPT ![p] = "write"]
            /\ UNCHANGED <<run_ts, run_i>>
       ELSE /\ run_pc' = [run_pc EXCEPT ![p] = "loop"]
            /\ run_ts' = [run_ts EXCEPT ![p] = Some(Val(out_file).mtime)]
            /\ run_i' = [run_i EXCEPT ![p] = 1]
    /\ run_overlap' = OverlapAfter(p)
    /\ UNCHANGED <<out_file, history, now, run_rest>>

\* one test of while candidate.exists(): the next suffix, or the loop ends
RunCandidateExists(p) ==
    /\ run_pc[p] = "loop"
    /\ IF candidate_exists(Val(run_ts[p]), run_i[p], DOMAIN history)
       THEN /\ run_i' = [run_i EXCEPT ![p] = @ + 1]
            /\ UNCHANGED run_pc
       ELSE /\ run_pc' = [run_pc EXCEPT ![p] = "rename"]
            /\ UNCHANGED run_i
    /\ run_overlap' = OverlapAfter(p)
    /\ UNCHANGED <<run_ts, out_file, history, now, run_rest>>

\* out_path.rename(candidate) moving the file
RunRename(p) ==
    /\ run_pc[p] = "rename"
    /\ out_file # NoneVal
    /\ HistoryName(Val(run_ts[p]), run_i[p]) \notin DOMAIN history
    /\ LET name == HistoryName(Val(run_ts[p]), run_i[p])
       IN  history' = [n \in DOMAIN history \cup {name} |->
                          IF n = name THEN Val(out_file) ELSE history[n]]
    /\ out_file' = NoneVal
    /\ run_pc' = [run_pc EXCEPT ![p] = "write"]
    /\ run_overlap' = OverlapAfter(p)
    /\ UNCHANGED <<run_ts, run_i, now, run_rest>>

\* out_path.rename(candidate) onto a file that is there by now, where the
\* platform replaces the target (POSIX)
RunRenameReplaces(p) ==
    /\ run_pc[p] = "rename"
    /\ out_file # NoneVal
    /\ HistoryName(Val(run_ts[p]), run_i[p]) \in DOMAIN history
    /\ history' = [history EXCEPT ![HistoryName(Val(run_ts[p]), run_i[p])] =
                                      Val(out_file)]
    /\ out_file' = NoneVal
    /\ run_pc' = [run_pc EXCEPT ![p] = "write"]
    /\ run_overlap' = OverlapAfter(p)
    /\ UNCHANGED <<run_ts, run_i, now, run_rest>>

\* out_path.rename(candidate) raises: FileNotFoundError when the output path
\* is gone, FileExistsError when the target is there and the platform does
\* not replace it (Windows); nothing catches it and the run ends
RunRenameRaises(p) ==
    /\ run_pc[p] = "rename"
    /\ \/ out_file = NoneVal
       \/ HistoryName(Val(run_ts[p]), run_i[p]) \in DOMAIN history
    /\ run_pc' = [run_pc EXCEPT ![p] = "failed"]
    /\ run_overlap' = OverlapAfter(p)
    /\ UNCHANGED <<run_ts, run_i, out_file, history, now, run_rest>>

\* out_path.write_text of the document of the run
RunWrite(p) ==
    /\ run_pc[p] = "write"
    /\ \E dt \in ClockSteps :
          /\ now + dt <= MaxNow
          /\ now' = now + dt
          /\ out_file' = Some([content |-> RunDoc(p), mtime |-> now + dt])
    /\ run_pc' = [run_pc EXCEPT ![p] = "done"]
    /\ run_overlap' = OverlapAfter(p)
    /\ UNCHANGED <<run_ts, run_i, history, run_rest>>

OverlapNext ==
    \/ \E p \in Runs : RunExists(p)
    \/ \E p \in Runs : RunStat(p)
    \/ \E p \in Runs : RunCandidateExists(p)
    \/ \E p \in Runs : RunRename(p)
    \/ \E p \in Runs : RunRenameReplaces(p)
    \/ \E p \in Runs : RunRenameRaises(p)
    \/ \E p \in Runs : RunWrite(p)

----------------------------------------------------------------------------
(* Specifications *)

\* nothing of the renderer or of main's output steps has run
ExtIdle ==
    /\ TabIdle
    /\ SelIdle
    /\ RunIdle
    /\ ModalIdle

RepIdle ==
    /\ WeekdayIdle
    /\ ChartIdle
    /\ PayloadIdle
    /\ MainIdle
    /\ FsIdle
    /\ ExtIdle

\* build_detail_stats_by_day on detail rows with the prices stat_values, the
\* first k of them of 2026-01-24 and the others of 2026-01-23
CallBuildDetailStats ==
    /\ stat_fn = "none"
    /\ \E k \in 0..Len(stat_values) :
         stat_result' = build_detail_stats_by_day(
                            [i \in DOMAIN stat_values |->
                                ChartDetail(IF i <= k THEN D24 ELSE D23,
                                            stat_values[i])])
    /\ stat_fn' = "build_detail_stats_by_day"
    /\ UNCHANGED <<stat_values, stat_p, avg_vars, det_vars, hol_vars, rep_vars>>

StatsNext ==
    \/ CallQuantile
    \/ CallMeanInt
    \/ CallMedianInt
    \/ CallBuildDetailStats

\* one call of a statistics function, nothing else running
StatsSpecInit ==
    /\ StatsInit
    /\ RepIdle
    /\ AvgIdle
    /\ DetailsIdle
    /\ HolidaysIdle

SpecStats == StatsSpecInit /\ [][StatsNext]_vars

\* one call of _japan_holidays_for_year, nothing else running
HolidaysSpecInit ==
    /\ HolidaysInit
    /\ RepIdle
    /\ StatsIdle
    /\ AvgIdle
    /\ DetailsIdle

SpecHolidays == HolidaysSpecInit /\ [][HolidaysNext]_vars

\* main reading its two tables; one table is populated at a time, the file of
\* the other one is missing
ReadInit ==
    /\ StatsIdle
    /\ RepIdle
    /\ HolidaysIdle
    /\ \/ AvgInit /\ DetailsIdle
       \/ AvgIdle /\ DetailsInit

ReadNext ==
    \/ MainReadAvg
    \/ MainReadAvgRaises
    \/ MainReadDetails
    \/ MainLoadHolidays
    \/ MainBuildDetailStats

SpecRead == ReadInit /\ [][ReadNext]_vars

\* one call of svg_line_chart, nothing else running
ChartSpecInit ==
    /\ ChartInit
    /\ WeekdayIdle
    /\ PayloadIdle
    /\ StatsIdle
    /\ AvgIdle
    /\ DetailsIdle
    /\ HolidaysIdle
    /\ MainIdle
    /\ FsIdle
    /\ ExtIdle

SpecChart == ChartSpecInit /\ [][ChartNext]_vars

\* one call of build_detail_payload_by_day, nothing else running
PayloadSpecInit ==
    /\ PayloadInit
    /\ WeekdayIdle
    /\ ChartIdle
    /\ StatsIdle
    /\ AvgIdle
    /\ DetailsIdle
    /\ HolidaysIdle
    /\ MainIdle
    /\ FsIdle
    /\ ExtIdle

SpecPayload == PayloadSpecInit /\ [][PayloadNext]_vars

\* runs of main one after the other, nothing else touching the files
MainSpecInit ==
    /\ MainInit
    /\ StatsIdle
    /\ HolidaysIdle
    /\ WeekdayIdle
    /\ ChartIdle
    /\ PayloadIdle
    /\ ExtIdle

SpecMain == MainSpecInit /\ [][MainNext]_vars

\* the two tables called one after the other, nothing else running
TablesSpecInit ==
    /\ TabInit
    /\ SelIdle
    /\ RunIdle
    /\ ModalIdle
    /\ StatsIdle
    /\ AvgIdle
    /\ DetailsIdle
    /\ HolidaysIdle
    /\ WeekdayIdle
    /\ ChartIdle
    /\ PayloadIdle
    /\ MainIdle
    /\ FsIdle

SpecTables == TablesSpecInit /\ [][TablesNext]_vars

\* the runs overlapping on one output path, nothing else running
OverlapSpecInit ==
    /\ RunInit
    /\ TabIdle
    /\ SelIdle
    /\ ModalIdle
    /\ StatsIdle
    /\ AvgIdle
    /\ DetailsIdle
    /\ HolidaysIdle
    /\ WeekdayIdle
    /\ ChartIdle
    /\ PayloadIdle

SpecOverlap == OverlapSpecInit /\ [][OverlapNext]_vars

\* the selection loop alone
SelectSpecInit ==
    /\ SelInit
    /\ TabIdle
    /\ RunIdle
    /\ ModalIdle
    /\ StatsIdle
    /\ AvgIdle
    /\ DetailsIdle
    /\ HolidaysIdle
    /\ WeekdayIdle
    /\ ChartIdle
    /\ PayloadIdle
    /\ MainIdle
    /\ FsIdle

SpecSelect == SelectSpecInit /\ [][SelectNext]_vars

----------------------------------------------------------------------------
(* Properties of the statistics engine *)

Abs(x) == IF x < 0 THEN -x ELSE x

\* the order statistic of rank k (0-based) of a list, stated without sorting:
\* at most k elements lie below it and more than k do not lie above it
OrderStat(values, k) ==
    CHOOSE v \in {values[i] : i \in DOMAIN values} :
        /\ Cardinality({i \in DOMAIN values : values[i] < v}) <= k
        /\ Cardinality({i \in DOMAIN values : values[i] <= v}) > k

\* the list with positions i and j exchanged
Swap(values, i, j) ==
    [k \in DOMAIN values |->
        IF k = i THEN values[j] ELSE IF k = j THEN values[i] ELSE values[k]]

\* r is a nearest integer to num/den
IsNearest(r, num, den) == 2 * Abs(r * den - num) <= den

\* r is what the claimed quantile rule gives for the non-empty list values:
\* the element itself for one element, else a nearest integer to the
\* interpolation between the order statistics of rank floor((n-1)p) and the
\* next rank (capped at n-1), weighted by the fractional part of (n-1)p
IsQuantileValue(r, values, p) ==
    LET n    == Len(values)
        inum == (n - 1) * p.num
        lo   == inum \div p.den
        hi   == IF lo + 1 <= n - 1 THEN lo + 1 ELSE n - 1
        wnum == inum % p.den
        a    == OrderStat(values, lo)
        b    == OrderStat(values, hi)
    IN  /\ n = 1 => r = values[1]
        /\ n >= 2 => IsNearest(r, a * (p.den - wnum) + b * wnum, p.den)

\* r is a median of the non-empty list values: the middle order statistic,
\* or a nearest integer to the mean of the two middle ones
IsMedianValue(r, values) ==
    LET n == Len(values)
    IN  IF n % 2 = 1 THEN r = OrderStat(values, (n - 1) \div 2)
        ELSE IsNearest(r, OrderStat(values, (n \div 2) - 1)
                              + OrderStat(values, n \div 2), 2)

QuantileCalled == stat_fn = "quantile" /\ stat_values # <<>>

\* C2: quantile(values, p) of one element is that element; of n >= 2 values it
\* is a nearest integer to the interpolation between the order statistics of
\* rank floor((n-1)p) and the next rank (capped at n-1), weighted by the
\* fractional part of (n-1)p; exchanging any two input positions (and so any
\* reordering) leaves the result unchanged.
C2_QuantileInterpolates ==
    QuantileCalled =>
        /\ stat_result # NoneVal
        /\ IsQuantileValue(Val(stat_result), stat_values, stat_p)
        /\ \A i, j \in DOMAIN stat_values :
               quantile(Swap(stat_values, i, j), stat_p) = stat_result

\* an unsorted four-element input whose p25 is interpolated with weight 3/4
C2_Witness ==
    /\ stat_fn = "quantile"
    /\ stat_values = <<40, 10, 30, 20>>
    /\ stat_p = [num |-> 1, den |-> 4]
    /\ stat_result = Some(18)

P25Of10To40 ==
    /\ stat_fn = "quantile"
    /\ stat_values = <<10, 20, 30, 40>>
    /\ stat_p = [num |-> 1, den |-> 4]

\* C3 as stated: quantile([10,20,30,40], 0.25) returns 17.
C3_Returns17 == P25Of10To40 => stat_result = Some(17)

\* C3 as amended: quantile([10,20,30,40], 0.25) returns 18 (the interpolated
\* value is 10*0.25 + 20*0.75 = 17.5, which rounds to 18).
C3_Returns18 == P25Of10To40 => stat_result = Some(18)

C3_Witness == P25Of10To40 /\ stat_result = Some(18)

\* C4: mean_int of a non-empty list is the mean rounded to the nearest
\* integer with exact halves rounded up: floor(mean + 1/2).
C4_MeanHalfUp ==
    (stat_fn = "mean_int" /\ stat_values # <<>>) =>
        stat_result = Some((2 * SumSeq(stat_values) + Len(stat_values))
                               \div (2 * Len(stat_values)))
----------------------------------------------------------------------------
(* Properties of the per-day statistics *)

StatsBuilt == det_pc = "stats"

DetailDates == {details_rows[i].checkin : i \in DOMAIN details_rows}

\* the prices of the detail rows of date d, selected from the rows directly
PricesOn(d) ==
    LET sel == SelectSeq(details_rows, LAMBDA r : r.checkin = d)
    IN  [i \in DOMAIN sel |-> sel[i].price_yen]

StatsExample ==
    [median |-> Some(10000), p25 |-> Some(9500), p75 |-> Some(10500),
     min |-> Some(9000), max |-> Some(11000)]

\* C1: the keys of build_detail_stats_by_day are exactly the dates of the
\* detail rows; every entry has all five fields present and they are the
\* median, the quartiles, the minimum and the maximum of that date's prices;
\* prices 9000 and 11000 give median 10000, p25 9500, p75 10500, min 9000,
\* max 11000.
C1_StatsByDay ==
    StatsBuilt =>
        /\ DOMAIN detail_stats_by_day = DetailDates
        /\ \A d \in DOMAIN detail_stats_by_day :
              LET e  == detail_stats_by_day[d]
                  ps == PricesOn(d)
              IN  /\ e.median # NoneVal /\ e.p25 # NoneVal /\ e.p75 # NoneVal
                  /\ e.min # NoneVal /\ e.max # NoneVal
                  /\ IsMedianValue(Val(e.median), ps)
                  /\ IsQuantileValue(Val(e.p25), ps, P25)
                  /\ IsQuantileValue(Val(e.p75), ps, P75)
                  /\ \A i \in DOMAIN ps : Val(e.min) <= ps[i] /\ ps[i] <= Val(e.max)
                  /\ \E i \in DOMAIN ps : Val(e.min) = ps[i]
                  /\ \E i \in DOMAIN ps : Val(e.max) = ps[i]
                  /\ (Len(ps) = 2 /\ {ps[1], ps[2]} = {9000, 11000})
                         => e = StatsExample

\* the two listings of 2026-01-23 and a third row, of 2026-01-24, dropped for
\* its missing price: one entry, for 2026-01-23
C1_Witness ==
    /\ StatsBuilt
    /\ Len(details_csv) = 3 /\ Len(details_rows) = 2
    /\ DOMAIN detail_stats_by_day = {D23}
    /\ detail_stats_by_day[D23] = StatsExample
    /\ \E i \in DOMAIN details_csv : details_csv[i].checkin = T_D24

----------------------------------------------------------------------------
(* Properties of the table readers *)

\* read_avg_csv has just been called (and returned or raised)
AvgReadDone == avg_pc # "start" /\ det_pc = "start" /\ avg_exists

\* read_details_csv has just returned
DetailsReadDone == det_pc = "read" /\ details_exists

\* the number of occurrences of x in the sequence s
CountIn(s, x) == Cardinality({i \in DOMAIN s : s[i] = x})

\* the two sequences hold the same elements the same number of times
SameBag(s, t) ==
    /\ Len(s) = Len(t)
    /\ \A i \in DOMAIN s : CountIn(s, s[i]) = CountIn(t, s[i])

AvgKept == SelectSeq(avg_csv, LAMBDA r : _parse_date(r.checkin) # NoneVal)

DetailsKept ==
    SelectSeq(details_csv, LAMBDA r : /\ _parse_date(r.checkin) # NoneVal
                                      /\ _parse_int(r.price_yen) # NoneVal)

\* C5: read_details_csv returns exactly the rows whose checkin parses as a
\* date and whose price_yen parses as an integer, read_avg_csv exactly the
\* rows whose checkin parses; the other rows of the batch are returned
\* unaltered.
C5_KeepsExactly ==
    /\ DetailsReadDone =>
          SameBag(details_rows, [i \in DOMAIN DetailsKept |-> DetailRowOf(DetailsKept[i])])
    /\ AvgReadDone =>
          /\ avg_pc = "read"
          /\ SameBag(avg_rows, [i \in DOMAIN AvgKept |-> AvgRowOf(AvgKept[i])])

\* C6: reading a table never raises, whatever its integer and float cells
\* (the count column included) hold.
C6_ReadNeverRaises == avg_pc # "raised"

\* the text is a valid calendar date in the form YYYY-MM-DD and nothing else
IsStrictDate(v) ==
    /\ Len(v) = 10
    /\ AllDigits(SubSeq(v, 1, 4)) /\ v[5] = "-"
    /\ AllDigits(SubSeq(v, 6, 7)) /\ v[8] = "-"
    /\ AllDigits(SubSeq(v, 9, 10))
    /\ IsValidDate(DigitsVal(SubSeq(v, 1, 4)), DigitsVal(SubSeq(v, 6, 7)),
                   DigitsVal(SubSeq(v, 9, 10)))

\* C7: both readers drop every row whose checkin (surrounding blanks aside) is
\* not a valid calendar date in the strict form YYYY-MM-DD: no more rows are
\* returned than the table has rows with a strict date.
C7_StrictDateOrDropped ==
    /\ DetailsReadDone =>
          Len(details_rows) <=
              Cardinality({i \in DOMAIN details_csv :
                              IsStrictDate(Strip(details_csv[i].checkin))})
    /\ (AvgReadDone /\ avg_pc = "read") =>
          Len(avg_rows) <=
              Cardinality({i \in DOMAIN avg_csv :
                              IsStrictDate(Strip(avg_csv[i].checkin))})

\* the reorderings of a table
Perms(n) == {f \in [1..n -> 1..n] : \A i, j \in 1..n : f[i] = f[j] => i = j}

Permuted(csv, f) == [i \in DOMAIN csv |-> csv[f[i]]]

\* no two rows of the list share the sort key
DistinctAvgKeys(rows) ==
    \A i, j \in DOMAIN rows : i # j => rows[i].checkin # rows[j].checkin

DistinctDetailKeys(rows) ==
    \A i, j \in DOMAIN rows :
        i # j => \/ rows[i].checkin # rows[j].checkin
                 \/ rows[i].price_yen # rows[j].price_yen
                 \/ rows[i].listing_url # rows[j].listing_url

C9_SortedUniqueDates ==
    (AvgReadDone /\ avg_pc = "read") =>
        \A i, j \in DOMAIN avg_rows :
            i < j => avg_rows[i].checkin < avg_rows[j].checkin

\* C9 as amended: the list read_avg_csv returns is sorted in non-decreasing
\* order of date and holds, for every date, as many rows as the table has
\* rows whose checkin parses to that date (so at most one row per date when
\* the table has at most one such row per date).
C9_SortedRowPerParsedRow ==
    (AvgReadDone /\ avg_pc = "read") =>
        /\ \A i, j \in DOMAIN avg_rows :
               i < j => avg_rows[i].checkin <= avg_rows[j].checkin
        /\ Len(avg_rows) = Len(AvgKept)
        /\ \A k \in DOMAIN AvgKept :
               LET d == Val(_parse_date(AvgKept[k].checkin))
               IN  Cardinality({i \in DOMAIN avg_rows : avg_rows[i].checkin = d})
                   = Cardinality({i \in DOMAIN AvgKept :
                                     Val(_parse_date(AvgKept[i].checkin)) = d})

\* two summary rows given in descending date order come out ascending
C9_Witness ==
    /\ AvgReadDone /\ avg_pc = "read"
    /\ Len(avg_csv) = 2 /\ Len(avg_rows) = 2
    /\ _parse_date(avg_csv[1].checkin) = Some(D25)
    /\ avg_rows[1].checkin = D23 /\ avg_rows[2].checkin = D25
----------------------------------------------------------------------------
(* Properties of the holiday calculator *)

\* the iteration of the substitution loop that handles the holiday h
SubstitutionOf(h) ==
    /\ hol_pc = "substitute"
    /\ hol_todo # <<>> /\ Head(hol_todo) = h
    /\ hol_todo' = Tail(hol_todo)

\* C10: every seeded holiday that falls on a Sunday adds exactly one
\* substitute, the first later date that is neither a seeded holiday nor an
\* already added substitute, and that date is new, so no two Sunday holidays
\* share a substitute; a holiday on another day adds none; hence the number
\* of substitutes is the number of seeded Sunday holidays handled so far.
C10_StepAddsFirstFreeDay ==
    \A h \in SeededHolidays(year) :
        SubstitutionOf(h) =>
            IF Weekday(h) = 6
            THEN \E d \in (h + 1)..(h + Cardinality(hols) + Cardinality(added_substitute) + 1) :
                    /\ added_substitute' = added_substitute \cup {d}
                    /\ d \notin added_substitute /\ d \notin hols
                    /\ \A e \in (h + 1)..(d - 1) : e \in hols \/ e \in added_substitute
            ELSE added_substitute' = added_substitute

C10_SubstituteCount ==
    hol_pc = "substitute" =>
        Cardinality(added_substitute)
            = Cardinality({h \in SeededHolidays(year) :
                              /\ Weekday(h) = 6
                              /\ \A i \in DOMAIN hol_todo : hol_todo[i] # h})

C10_OneSubstitutePerSunday ==
    [](C10_SubstituteCount) /\ [][C10_StepAddsFirstFreeDay]_vars

\* 2026: 3 May is a Sunday and 4 and 5 May are holidays, the substitute is
\* 6 May
C10_Witness ==
    /\ year = 2026
    /\ hol_pc = "substitute" /\ hol_todo = <<>>
    /\ Weekday(Date(2026, 5, 3)) = 6
    /\ Date(2026, 5, 6) \in added_substitute
    /\ Date(2026, 5, 4) \notin added_substitute

\* the holidays of the year after the substitution step: seeded and substitute
AfterSubstitution == SeededHolidays(year) \cup added_substitute

\* C11: once the function has returned, the dates it holds beyond the seeded
\* and substitute holidays are exactly the dates of the year that are not
\* such a holiday, are not a Sunday, and have a seeded or substitute holiday
\* on both the previous and the next day; the neighbours are looked up in the
\* set as it was after the substitution step, so a date added by this rule
\* never counts as a neighbour, and no date outside the year is added.
C11_CitizenHolidays ==
    hol_pc = "done" =>
        LET before == AfterSubstitution
            added  == hols \ before
        IN  /\ before \subseteq hols
            /\ \A d \in added : d \in Date(year, 1, 1)..Date(year, 12, 31)
            /\ \A d \in Date(year, 1, 1)..Date(year, 12, 31) :
                   (d \in added)
                       <=> /\ d \notin before
                           /\ Weekday(d) # 6
                           /\ (d - 1) \in before
                           /\ (d + 1) \in before

\* 2026: 21 September is the third Monday and 23 September the autumn
\* equinox, so Tuesday 22 September is added by the rule
C11_Witness ==
    /\ year = 2026
    /\ hol_pc = "done"
    /\ Date(2026, 9, 21) \in AfterSubstitution
    /\ Date(2026, 9, 23) \in AfterSubstitution
    /\ Date(2026, 9, 22) \in hols \ AfterSubstitution

----------------------------------------------------------------------------
(* Properties of the weekday classification *)

ClassNames == {"holiday", "sat", "sun", "weekday"}

\* C12: weekday_class returns exactly one of holiday, sat, sun, weekday:
\* holiday whenever the date is in the holiday set, also on a Saturday or a
\* Sunday; otherwise sat on a Saturday, sun on a Sunday and weekday on any
\* other day; weekday_color returns the colour of that same class.
C12_ClassPrecedence ==
    wd_class # "none" =>
        /\ wd_class \in ClassNames
        /\ (wd_d \in hols) => wd_class = "holiday"
        /\ (wd_d \notin hols /\ Weekday(wd_d) = 5) => wd_class = "sat"
        /\ (wd_d \notin hols /\ Weekday(wd_d) = 6) => wd_class = "sun"
        /\ (wd_d \notin hols /\ Weekday(wd_d) \in 0..4) => wd_class = "weekday"
        /\ wd_color = (CASE wd_class = "holiday" -> "#16a34a"
                         [] wd_class = "sat" -> "#2563eb"
                         [] wd_class = "sun" -> "#dc2626"
                         [] wd_class = "weekday" -> "#666")

\* 3 May 2026 is a holiday on a Sunday and is classified holiday
C12_Witness ==
    /\ year = 2026
    /\ wd_d = Date(2026, 5, 3)
    /\ Weekday(wd_d) = 6 /\ wd_d \in hols
    /\ wd_class = "holiday" /\ wd_color = "#16a34a"

----------------------------------------------------------------------------
(* Properties of the line chart *)

ChartCalled == chart_out \in {"placeholder", "svg"}

\* row i of the summary has a value for the series key
HasValue(i, key) ==
    series_value(chart_avg_rows[i], key, chart_stats_by_day) # NoneVal

\* the maximal runs <<a, b>> of at least two consecutive rows with a value
MaximalRuns(key) ==
    LET n == Len(chart_avg_rows)
    IN  {run \in (1..n) \X (1..n) :
            /\ run[1] < run[2]
            /\ \A i \in run[1]..run[2] : HasValue(i, key)
            /\ run[1] = 1 \/ ~HasValue(run[1] - 1, key)
            /\ run[2] = n \/ ~HasValue(run[2] + 1, key)}

\* the points of the rows a..b of the series key
PointsOfRun(run, key) ==
    [j \in 1..(run[2] - run[1] + 1) |->
        PointOf(chart_avg_rows, run[1] + j - 2,
                Val(series_value(chart_avg_rows[run[1] + j - 1], key,
                                 chart_stats_by_day)),
                Val(chart_y))]

\* C13: for each of the four series the polylines are, in row order, exactly
\* the maximal runs of consecutive summary rows that have a value for the
\* series and are at least two rows long; so no polyline joins rows across a
\* row without a value and a run of one row gives no polyline.
C13_PolylinesAreMaximalRuns ==
    ChartCalled =>
        \A key \in SeriesKeys :
            LET segs == chart_segs[key]
                runs == MaximalRuns(key)
            IN  /\ Len(segs) = Cardinality(runs)
                /\ \A k \in DOMAIN segs : \E run \in runs :
                       /\ Cardinality({r \in runs : r[1] < run[1]}) = k - 1
                       /\ segs[k] = PointsOfRun(run, key)

\* averages on rows 1, 2 and 4 but not on row 3: one polyline of two points
C13_Witness ==
    /\ chart_out = "svg"
    /\ Len(chart_avg_rows) = 4
    /\ HasValue(1, "avg") /\ HasValue(2, "avg")
    /\ ~HasValue(3, "avg") /\ HasValue(4, "avg")
    /\ Len(chart_segs["avg"]) = 1
    /\ Len(chart_segs["avg"][1]) = 2

\* the rows whose date has statistics
RowsWithStats ==
    {i \in DOMAIN chart_avg_rows :
        chart_avg_rows[i].checkin \in DOMAIN chart_stats_by_day}

\* the averages of the rows that have one
Averages ==
    LET present == SelectSeq(chart_avg_rows, LAMBDA r : r.avg_price_yen # NoneVal)
    IN  [i \in DOMAIN present |-> Val(present[i].avg_price_yen)]

\* the daily values of the statistic k over the summary dates that have one
DailyStat(k) ==
    {Val(chart_stats_by_day[chart_avg_rows[i].checkin][k]) : i \in RowsWithStats}

Least(S) == CHOOSE v \in S : \A w \in S : v <= w

Greatest(S) == CHOOSE v \in S : \A w \in S : v >= w

\* C14: the axis range is [least daily p25, greatest daily p75] over the
\* summary dates that have statistics; without such a date it is the 25th
\* and 75th percentile of all values collected; without any value it is the
\* range 0..20000.
C14_AxisRange ==
    ChartCalled =>
        IF RowsWithStats # {}
        THEN chart_y = Some(<<Least(DailyStat("p25")), Greatest(DailyStat("p75"))>>)
        ELSE IF Averages # <<>>
        THEN chart_y = Some(<<Val(quantile(Averages, P25)),
                              Val(quantile(Averages, P75))>>)
        ELSE chart_y = Some(<<0, 20000>>)

\* C15: when no summary row has an average and no summary date has
\* statistics, the empty summary included, svg_line_chart returns the
\* no-data paragraph: no axis range is computed and no polyline is emitted.
C15_NoDataPlaceholder ==
    (/\ ChartCalled
     /\ \A i \in DOMAIN chart_avg_rows : chart_avg_rows[i].avg_price_yen = NoneVal
     /\ RowsWithStats = {})
        => /\ chart_out = "placeholder"
           /\ chart_y = NoneVal
           /\ chart_segs = NoSegs

\* two rows without an average, statistics only for a date outside the summary
C15_Witness ==
    /\ chart_out = "placeholder"
    /\ Len(chart_avg_rows) = 2
    /\ DOMAIN chart_stats_by_day = {D23 + 7}

----------------------------------------------------------------------------
(* Properties of the detail payload *)

PayloadDates == {pay_details_rows[i].checkin : i \in DOMAIN pay_details_rows}

\* the detail rows of date d as payload dictionaries, in the order given
PayloadRowsOn(d) ==
    LET sel == SelectSeq(pay_details_rows, LAMBDA r : r.checkin = d)
    IN  [i \in DOMAIN sel |-> PayloadRowOf(sel[i])]

\* C16: the keys of the payload are the ISO texts of the dates that have a
\* detail row, one key per such date and no other key; the bundle of a date
\* lists all detail rows of the date, each as often as it was given, in
\* non-decreasing price order; so the bundles hold as many rows as were given.
C16_PayloadByDay ==
    pay_pc = "done" =>
        /\ DOMAIN pay_result = {isoformat(d) : d \in PayloadDates}
        /\ Cardinality(DOMAIN pay_result) = Cardinality(PayloadDates)
        /\ \A d \in PayloadDates :
               LET rows == pay_result[isoformat(d)].rows
               IN  /\ SameBag(rows, PayloadRowsOn(d))
                   /\ \A i, j \in DOMAIN rows :
                          i < j => rows[i].price <= rows[j].price
        /\ Cardinality({<<k, i>> \in (DOMAIN pay_result) \X (1..MaxPayloadRows + 1) :
                            i \in DOMAIN pay_result[k].rows})
               = Len(pay_details_rows)

\* 11000 before 9000 on 23 January and a row of 24 January in between
C16_Witness ==
    /\ pay_pc = "done"
    /\ Len(pay_details_rows) = 3
    /\ pay_details_rows[1].checkin = D23 /\ pay_details_rows[1].price_yen = 11000
    /\ pay_details_rows[2].checkin = D24
    /\ pay_details_rows[3].checkin = D23 /\ pay_details_rows[3].price_yen = 9000
    /\ DOMAIN pay_result = {T_D23, T_D24}
    /\ pay_result[T_D23].rows[1].price = 9000
    /\ pay_result[T_D23].rows[2].price = 11000

\* C18: a run that finds a file at the output path renames it to a history
\* name that did not exist before, the name of the second of the file's own
\* last-modified time with the first free suffix; no step overwrites or
\* removes a history file, and the history grows by exactly one file in
\* such a run
C18_BackupKeepsHistory ==
    [][/\ \A n \in DOMAIN history :
             n \in DOMAIN history' /\ history'[n] = history[n]
       /\ (det_pc = "mkdir" /\ det_pc' = "backup" /\ out_file # NoneVal) =>
             /\ candidate' # NoneVal
             /\ Val(candidate') \notin DOMAIN history
             /\ Val(candidate').stamp = Val(out_file).mtime \div 2
             /\ \A j \in 1..(Val(candidate').i - 1) :
                   HistoryName(Val(out_file).mtime, j) \in DOMAIN history
             /\ history'[Val(candidate')] = Val(out_file)
             /\ Cardinality(DOMAIN history') = Cardinality(DOMAIN history) + 1
       /\ ~(det_pc = "mkdir" /\ det_pc' = "backup" /\ out_file # NoneVal) =>
             history' = history]_vars

\* the third run has moved the file of the second run to a name with the
\* suffix _3, next to the two history files of the same second
C18_Witness ==
    /\ det_pc = "backup"
    /\ runs_done = 2
    /\ candidate # NoneVal
    /\ Val(candidate).i = 3
    /\ Cardinality(DOMAIN history) = 3

\* C19: in a run the document is put together after both tables are read,
\* the parent directory is created once the document is there, the prior
\* file is renamed into the history after that, and the output path is
\* written after that, once, with the whole document; no other step touches
\* the output path
C19_StepOrder ==
    [][/\ (doc' # doc /\ doc' # NoneVal) =>
             /\ avg_pc = "read" /\ det_pc \notin {"start", "read"}
             /\ avg_rows = (IF avg_exists THEN read_avg_csv(avg_csv) ELSE <<>>)
             /\ details_rows = (IF details_exists THEN read_details_csv(details_csv)
                                ELSE <<>>)
             /\ UNCHANGED fs_vars
       /\ out_parent_exists' # out_parent_exists =>
             doc # NoneVal /\ UNCHANGED <<out_file, history>>
       /\ (history' # history \/ (out_file' # out_file /\ out_file' = NoneVal)) =>
             /\ doc # NoneVal /\ out_parent_exists /\ det_pc = "mkdir"
             /\ out_file # NoneVal /\ out_file' = NoneVal
       /\ (out_file' # out_file /\ out_file' # NoneVal) =>
             /\ doc # NoneVal /\ out_parent_exists
             /\ det_pc = "backup" /\ det_pc' = "written"
             /\ out_file = NoneVal
             /\ Val(out_file').content = Val(doc)
       /\ det_pc = "written" =>
             /\ out_file # NoneVal /\ Val(out_file).content = Val(doc)
             /\ UNCHANGED fs_vars]_vars

\* a run over both tables has renamed the prior file and written its document
C19_Witness ==
    /\ det_pc = "written"
    /\ avg_rows # <<>>
    /\ details_rows # <<>>
    /\ candidate # NoneVal
    /\ out_file = Some([content |-> Val(doc), mtime |-> now])

\* C17: in the written document the document title, the search URLs and the
\* title, raw label, subtitle and URL of every listing of the payload stand
\* in their entity-escaped form, and no title of the payload has a raw "<"
C17_FreeTextEscaped ==
    det_pc = "written" =>
        LET written == Val(out_file).content
        IN  /\ written.title = escape(args_title)
            /\ written.heading = escape(args_title)
            /\ written.summary # NoneVal =>
                  \A i \in DOMAIN avg_rows :
                      Val(written.summary).hrefs[i]
                          = escape(get_or_build_search_url(avg_rows[i]))
            /\ \A k \in DOMAIN written.payload :
                  \A i \in DOMAIN written.payload[k].rows :
                      LET embedded == written.payload[k].rows[i]
                          listing == detail_payload_by_day[k].rows[i]
                      IN  /\ embedded.title = escape(listing.title)
                          /\ embedded.label = escape(listing.label)
                          /\ embedded.url = escape(listing.url)
                          /\ listing.subtitle # NoneVal =>
                                Val(embedded.subtitle) = escape(Val(listing.subtitle))
                          /\ ~Contains(embedded.title, <<"<">>)

\* C20: the document a run writes differs from the document the run before
\* it wrote, which this run has moved into the history
C20_SuccessiveRunsDiffer ==
    (det_pc = "written" /\ runs_done >= 1) =>
        history[Val(candidate)].content # Val(out_file).content

\* C21: a missing table is read as no rows and does not fail the run. The
\* document written without the summary table has the no-data card and no
\* monthly table, chart or daily table; the document written without the
\* detail table has an empty payload, the notice that details cannot be
\* opened, and every button of the daily table disabled
C21_MissingTables ==
    /\ ~avg_exists => (avg_pc # "raised" /\ avg_rows = <<>>)
    /\ ~details_exists => (details_rows = <<>> /\ detail_stats_by_day = EmptyDict)
    /\ det_pc = "written" =>
          LET written == Val(out_file).content
          IN  /\ ~avg_exists =>
                    written.no_data_note /\ written.summary = NoneVal
              /\ ~details_exists =>
                    /\ written.payload = EmptyDict
                    /\ written.no_details_note
                    /\ written.summary # NoneVal =>
                          \A i \in DOMAIN Val(written.summary).table :
                              Val(written.summary).table[i].button = NoneVal

\* a run with the summary table and without the detail table has written a
\* document with a daily table
C21_Witness ==
    /\ det_pc = "written"
    /\ avg_exists /\ ~details_exists
    /\ Val(out_file).content.summary # NoneVal
    /\ Len(Val(Val(out_file).content.summary).table) = 2
    /\ Val(out_file).content.no_details_note

----------------------------------------------------------------------------
(* Properties of the monthly summary and of the daily table *)

TabMonths == {MonthKey(tab_avg_rows[i]) : i \in DOMAIN tab_avg_rows}

RowsOfMonth(k) == {i \in DOMAIN tab_avg_rows : MonthKey(tab_avg_rows[i]) = k}

RankOfMonth(k) == 1 + Cardinality({o \in TabMonths : MonthKeyLess(o, k)})

RECURSIVE SumOver(_, _)
SumOver(I, g) ==
    IF I = {} THEN 0
    ELSE LET i == CHOOSE j \in I : TRUE
         IN  g[i] + SumOver(I \ {i}, g)

\* the daily value of each summary row: its average, or a statistic of its date
DailyAverages == [i \in DOMAIN tab_avg_rows |-> tab_avg_rows[i].avg_price_yen]

DailyStats(k) ==
    [i \in DOMAIN tab_avg_rows |->
        IF tab_avg_rows[i].checkin \in DOMAIN tab_stats_by_day
        THEN tab_stats_by_day[tab_avg_rows[i].checkin][k]
        ELSE NoneVal]

\* the cell shows an integer nearest to the mean of the daily values present
\* in the month, "-" when there is none
IsMeanCell(cell, month, daily) ==
    LET present == {i \in RowsOfMonth(month) : daily[i] # NoneVal}
        n == Cardinality(present)
        total == SumOver(present, [i \in present |-> Val(daily[i])])
    IN  IF n = 0 THEN cell = <<"-">>
        ELSE \E v \in (total \div n)..(total \div n + 1) :
                 /\ 2 * Abs(n * v - total) <= n
                 /\ cell = fmt_yen(Some(v))

\* C23: html_monthly_summary emits one row per (year, month) of the summary
\* rows, in ascending order; the day count of a row is the number of summary
\* rows of the month, the counts summing to the number of summary rows; the
\* average, median, p25 and p75 of a row are the rounded means of the daily
\* values present in the month, "-" when none is present
C23_MonthlyRollup ==
    tab_pc \in {"monthly", "done"} =>
        /\ Len(tab_monthly) = Cardinality(TabMonths)
        /\ \A k \in TabMonths :
              LET row == tab_monthly[RankOfMonth(k)]
              IN  /\ row.month_label = k[2]
                  /\ row.days = Cardinality(RowsOfMonth(k))
                  /\ IsMeanCell(row.mean, k, DailyAverages)
                  /\ IsMeanCell(row.median, k, DailyStats("median"))
                  /\ IsMeanCell(row.p25, k, DailyStats("p25"))
                  /\ IsMeanCell(row.p75, k, DailyStats("p75"))
        /\ SumOver(DOMAIN tab_monthly, [j \in DOMAIN tab_monthly |-> tab_monthly[j].days])
               = Len(tab_avg_rows)

\* two summary rows of January 2026 and one of January 2027: two rows of the
\* month 1, the first one with a median and without an average
C23_Witness ==
    /\ tab_pc = "monthly"
    /\ Len(tab_avg_rows) = 3
    /\ Len(tab_monthly) = 2
    /\ tab_monthly[1].month_label = 1 /\ tab_monthly[2].month_label = 1
    /\ tab_monthly[1].days = 2
    /\ tab_monthly[1].mean = <<"-">>
    /\ tab_monthly[1].median = fmt_yen(Some(12))

\* the cell shows the value, "-" exactly when the value is absent
IsYenCell(cell, v) ==
    /\ cell = fmt_yen(v)
    /\ cell = <<"-">> <=> v = NoneVal

\* C25: html_table_avg emits one table row per summary row, in the order of
\* the summary rows; the button of a row opens the modal of the date of the
\* row when the date has a detail row and is disabled when it has none; an
\* absent average, median, p25, p75, minimum or maximum is shown as "-"
C25_DailyTable ==
    tab_pc = "done" =>
        /\ Len(tab_table) = Len(tab_avg_rows)
        /\ \A i \in DOMAIN tab_avg_rows :
              LET r == tab_avg_rows[i]
                  row == tab_table[i]
                  detailed == \E j \in DOMAIN tab_details_rows :
                                  tab_details_rows[j].checkin = r.checkin
              IN  /\ row.date.ymd = <<YearOf(r.checkin), MonthOf(r.checkin),
                                      DayOf(r.checkin)>>
                  /\ detailed => row.button = Some(isoformat(r.checkin))
                  /\ ~detailed => row.button = NoneVal
                  /\ IsYenCell(row.avg, r.avg_price_yen)
                  /\ IsYenCell(row.median, DailyStats("median")[i])
                  /\ IsYenCell(row.p25, DailyStats("p25")[i])
                  /\ IsYenCell(row.p75, DailyStats("p75")[i])
                  /\ IsYenCell(row.min, r.min_price_yen)
                  /\ IsYenCell(row.max, r.max_price_yen)
                  /\ row.count = r.count

\* a table of two rows: the first with a button that opens 2026-01-31 and
\* without an average, the second with a disabled button
C25_Witness ==
    /\ tab_pc = "done"
    /\ Len(tab_table) = 2
    /\ tab_table[1].button = Some(<<"2", "0", "2", "6", "-", "0", "1", "-", "3", "1">>)
    /\ tab_table[1].avg = <<"-">>
    /\ tab_table[1].median # <<"-">>
    /\ tab_table[2].button = NoneVal
    /\ tab_table[2].median = <<"-">>

----------------------------------------------------------------------------
(* Properties of the selection of the best and the worst day *)

SelPresent == {i \in DOMAIN sel_avg_rows : sel_avg_rows[i].avg_price_yen # NoneVal}

\* C24: after the selection loop best is a summary row with the least
\* average and worst a summary row with the greatest average among the rows
\* with an average, the average 0 included; both are None exactly when no
\* row has an average
C24_BestAndWorst ==
    sel_pc = "done" =>
        /\ best = NoneVal <=> SelPresent = {}
        /\ worst = NoneVal <=> SelPresent = {}
        /\ SelPresent # {} =>
              /\ \E i \in SelPresent : Val(best) = sel_avg_rows[i]
              /\ \E i \in SelPresent : Val(worst) = sel_avg_rows[i]
              /\ \A i \in SelPresent :
                    /\ Val(Val(best).avg_price_yen)
                           <= Val(sel_avg_rows[i].avg_price_yen)
                    /\ Val(Val(worst).avg_price_yen)
                           >= Val(sel_avg_rows[i].avg_price_yen)

----------------------------------------------------------------------------
(* Properties of the statistics of the modal *)

\* C27: the mean, median, p25 and p75 the script computes for the modal of a
\* date of the payload are those mean_int, median_int and quantile give for
\* the prices of the date, the median, p25 and p75 being those of the daily
\* table
C27_ModalEqualsTable ==
    pay_pc = "modal" =>
        LET k == Val(modal_day)
            prices == [i \in DOMAIN pay_result[k].rows |-> pay_result[k].rows[i].price]
            by_day == build_detail_stats_by_day(pay_details_rows)
            d == CHOOSE e \in DOMAIN by_day : isoformat(e) = k
            shown == Val(modal_stats)
        IN  /\ shown.mean = mean_int(prices)
            /\ shown.median = median_int(prices)
            /\ shown.p25 = quantile(prices, P25)
            /\ shown.p75 = quantile(prices, P75)
            /\ shown.median = by_day[d].median
            /\ shown.p25 = by_day[d].p25
            /\ shown.p75 = by_day[d].p75

----------------------------------------------------------------------------
(* The order of the statistics of a date *)

\* C26: for every date of the map of build_detail_stats_by_day,
\* min <= p25 <= median <= p75 <= max, on the rounded values
C26_StatsOrdered ==
    stat_fn = "build_detail_stats_by_day" =>
        \A d \in DOMAIN stat_result :
            LET e == stat_result[d]
            IN  /\ Val(e.min) <= Val(e.p25)
                /\ Val(e.p25) <= Val(e.median)
                /\ Val(e.median) <= Val(e.p75)
                /\ Val(e.p75) <= Val(e.max)

\* a date with the prices 1, 2, 10, whose quartiles end in .5 before the
\* rounding, next to a date of one price
C26_Witness ==
    /\ stat_fn = "build_detail_stats_by_day"
    /\ stat_values = <<3, 1, 2, 10>>
    /\ DOMAIN stat_result = {D23, D24}
    /\ stat_result[D23].median = Some(2)
    /\ stat_result[D23].p25 # stat_result[D23].p75

----------------------------------------------------------------------------
(* The plot area of the chart *)

\* y, in hundredths, lies between margin_t and height - margin_b
InPlotArea(y) == 100 * margin_t <= y /\ y <= 100 * (height - margin_b)

\* C28: every marker of an average and every vertex of a polyline of the four
\* series has its y coordinate between margin_t and height - margin_b
C28_PointsInPlotArea ==
    chart_out = "svg" =>
        /\ \A i \in DOMAIN chart_avg_points : InPlotArea(chart_avg_points[i][2])
        /\ \A key \in SeriesKeys : \A k \in DOMAIN chart_segs[key] :
              \A j \in DOMAIN chart_segs[key][k] :
                  InPlotArea(chart_segs[key][k][j][2])

----------------------------------------------------------------------------
(* The holidays of the dates of the payload *)

\* main has built the payload
PayloadBuilt ==
    det_pc \in {"payload", "assembled", "mkdir", "backup", "written"}

\* C29: for every date that is a key of the payload, wcls is "holiday"
\* exactly when the date is one of the holidays the calculator yields for its
\* year, wherever the date lies relative to the dates of the summary rows
C29_PayloadHolidays ==
    PayloadBuilt =>
        \A i \in DOMAIN details_rows :
            LET d == details_rows[i].checkin
            IN  /\ isoformat(d) \in DOMAIN detail_payload_by_day
                /\ detail_payload_by_day[isoformat(d)].wcls = "holiday"
                       <=> d \in _japan_holidays_for_year(YearOf(d))

----------------------------------------------------------------------------
(* A run that fails in its write *)

\* C30: after a run that found an artifact at the output path and failed in
\* its write, that artifact is at the output path
C30_FailedWriteKeepsArtifact ==
    (det_pc = "write_raised" /\ candidate # NoneVal) =>
        /\ out_file # NoneVal
        /\ out_file = Some(history[Val(candidate)])

----------------------------------------------------------------------------
(* Runs that overlap *)

\* a step that replaces a file of the history
HistoryOverwritten ==
    \E n \in DOMAIN history : n \in DOMAIN history' /\ history'[n] # history[n]

\* a step in which a run ends on its rename
RenameFailed == \E p \in Runs : run_pc[p] # "failed" /\ run_pc'[p] = "failed"

\* C22: runs that overlap on one output path are not safe: a file of the
\* history is replaced, or a run fails on its rename, in an interleaving of
\* the steps of overlapping runs, and only there
C22_OverlapUnsafe ==
    [][(HistoryOverwritten \/ RenameFailed) => run_overlap']_vars

\* both runs have found a file at the output path, renamed it and ended
\* without a failure, and the artifact the first of them found is neither at
\* the output path nor in the history: the rename of the other run replaced it
C22_Witness ==
    /\ \A p \in Runs : run_pc[p] = "done" /\ run_ts[p] # NoneVal
    /\ run_overlap
    /\ out_file # Some(OldArtifact)
    /\ \A n \in DOMAIN history : history[n] # OldArtifact
====
